---- MODULE Spec2Model ----
(***************************************************************************)
(* A model of src/loggers/eventlogger.py: the HDF5 container               *)
(* (HDF5container), the reference index over one array                     *)
(* (HDF5referenceDataset), the linked datasets, the event hierarchy and    *)
(* the event logger.  Every method is an operator on a record holding the  *)
(* object's fields and the file's contents; every action applies one       *)
(* public call to the current state.                                       *)
(*                                                                         *)
(* The h5py file is modelled by what the code reads and writes of it: the  *)
(* attribute namespace (attrs), the arrays (h5_items), and whether the     *)
(* File object held in h5_fobj is still valid (fobj_valid).                *)
(***************************************************************************)
EXTENDS Integers, Sequences, FiniteSets, TLC

VARIABLES
    h5_fobj,       \* HDF5container.h5_fobj: 0 is None, 1 and 2 are File objects
    fobj_valid,    \* bool(h5_fobj) of the File object: TRUE until it is closed
    file_exists,   \* path.is_file()
    attrs,         \* the file's attributes: name -> value or Absent
    h5_items,      \* the file's arrays: name -> array or NoArray
    _file_attrs,   \* HDF5container._file_attrs
    _datasets,     \* HDF5container._datasets
    cache,         \* the instance attributes "_" + name
    is_updating,   \* HDF5container.is_updating
    dataset_links, \* HDF5linkedDatasets.references: name -> HDF5referenceDataset
    child_datasets,\* HDF5hierarchicalDatasets.child_datasets (its keys)
    uuids,         \* the number of calls of uuid.uuid4() so far
    start_datetime,     \* HDF5eventLogger.start_datetime, in microseconds
    start_time_counter, \* HDF5eventLogger.start_time_counter, in ticks
    start_time_offset,  \* HDF5eventLogger.start_time_offset, in microseconds
    clock,         \* the time that has passed, in ticks of the counter
    handles,       \* the HDF5dataset objects constructed so far, by object
    cached,        \* which HDF5dataset object "_X" holds (0: none of them)
    scopes,        \* ghost: the "with dataset:" blocks entered and not yet left
    registry,      \* VersionRegistry.data["Example"]["list"]; <<>> before the first add_item
    parent_name,   \* HDF5hierarchicalDatasets.parent_name
    rejections,    \* ghost: the kinds of write the file has rejected so far
    written,       \* ghost: the ids ever written to a reference field
    log,           \* ghost: the events appended so far, one entry per call
    call           \* ghost: the last call, its outcome and what it reported

vars == <<h5_fobj, fobj_valid, file_exists, attrs, h5_items, _file_attrs,
          _datasets, cache, is_updating, dataset_links, child_datasets, uuids,
          start_datetime, start_time_counter, start_time_offset, clock,
          handles, cached, scopes, registry, parent_name, rejections, written, log, call>>

\* The container and its file.
containerState == <<h5_fobj, fobj_valid, file_exists, attrs, h5_items, _file_attrs,
                    _datasets, cache, is_updating>>

\* The event hierarchy, its arrays and their reference indices.
hierarchyState == <<dataset_links, child_datasets, uuids, written, log>>

\* The logger's time base and the clocks it reads.
timeState == <<start_datetime, start_time_counter, start_time_offset, clock>>

\* The HDF5dataset objects handed out by the container.
handleState == <<handles, cached, scopes>>

\* The registry of the versioned classes.
versionState == <<registry>>

\* The name the hierarchy holds for its parent array.
parentState == <<parent_name>>

---------------------------------------------------------------------------
(* Names and values *)

\* Attribute and array names share one namespace of instance attributes
\* ("_" + name); X is used both as an attribute and as an array name.
Names == {"FileType", "Version", "X"}

FILE_TYPE == "Abstract"
VERSION == "0.0.0"

Absent == "<absent>"
\* A value h5py cannot store as an attribute (an arbitrary Python object).
Unsupported == "<object>"

\* default_attrs of HDF5container.__init__, in insertion order.
default_attrs == << <<"FileType", FILE_TYPE>>, <<"Version", VERSION>> >>

\* Values of the instance attribute "_" + name.
NoAttr == [kind |-> "noattr", v |-> "", cur |-> FALSE]
AttrVal(v) == [kind |-> "attr", v |-> v, cur |-> FALSE]
\* HDF5dataset(self.h5_fobj[name], self): a wrapper holding a raw handle;
\* cur says whether that handle belongs to the File object now in h5_fobj.
Wrapper(name) == [kind |-> "HDF5dataset", v |-> name, cur |-> TRUE]
\* The raw h5py dataset load_datasets stores.
Raw(name) == [kind |-> "h5py.Dataset", v |-> name, cur |-> TRUE]
\* Other values a call returns.
Value(v) == [kind |-> "value", v |-> v, cur |-> FALSE]

\* The file's arrays: a record array with a schema and rows.
NoArray == [exists |-> FALSE, descr |-> <<>>, rows |-> <<>>]
EmptyArray == [exists |-> TRUE, descr |-> <<>>, rows |-> <<>>]

\* The orders in which a Python set of names may be iterated.
Orders == {o \in [1..Cardinality(Names) -> Names] : \A i, j \in DOMAIN o : i # j => o[i] # o[j]}
Pos(ord, k) == CHOOSE i \in DOMAIN ord : ord[i] = k

---------------------------------------------------------------------------
(* HDF5container: the world record and its methods *)

World == [h5_fobj |-> h5_fobj, fobj_valid |-> fobj_valid, file_exists |-> file_exists,
          attrs |-> attrs, h5_items |-> h5_items, _file_attrs |-> _file_attrs,
          _datasets |-> _datasets, cache |-> cache, is_updating |-> is_updating,
          exc |-> "", warns |-> {}, rejected |-> {}, ret |-> NoAttr]

is_open(w) == w.h5_fobj # 0 /\ w.fobj_valid

Raise(w, e) == [w EXCEPT !.exc = e]
Warn(w, m) == [w EXCEPT !.warns = @ \cup {m}]

\* The keys whose "_" + key is not an instance attribute.
Missing(w, keys) == {k \in keys : w.cache[k] = NoAttr}

\* The position, in iteration order, of the first key __delattr__ fails on.
FirstMissing(ord, missing) ==
    CHOOSE i \in DOMAIN ord : /\ ord[i] \in missing
                              /\ \A j \in 1..(i-1) : ord[j] \notin missing

\* The keys a clearing loop deletes before it ends or raises.
Deleted(keys, ord, missing) ==
    IF missing = {} THEN keys
    ELSE {k \in keys : Pos(ord, k) < FirstMissing(ord, missing)}

\* self.__delattr__("_" + key) for the keys in gone.
delattrs(w, gone) ==
    [w EXCEPT !.cache = [k \in Names |-> IF k \in gone THEN NoAttr ELSE @[k]]]

\* The end of clear_attributes: the set is cleared unless the loop raised.
clear_attributes_end(w, missing) ==
    IF missing = {} THEN [w EXCEPT !._file_attrs = {}]
    ELSE Raise(w, "AttributeError:clear_attributes")

\* clear_attributes: delete "_" + key for every key, then clear the set.
\* __delattr__ raises AttributeError at the first key that has no cached
\* attribute; the keys iterated before it are already deleted.
clear_attributes(w, ord) ==
    clear_attributes_end(
        delattrs(w, Deleted(w._file_attrs, ord, Missing(w, w._file_attrs))),
        Missing(w, w._file_attrs))

\* The loop of load_attributes over the file's attributes.
load_attributes_items(w) ==
    IF w.exc # "" THEN w
    ELSE [w EXCEPT !._file_attrs = {k \in Names : w.attrs[k] # Absent},
                   !.cache = [k \in Names |-> IF w.attrs[k] # Absent
                                              THEN AttrVal(w.attrs[k]) ELSE @[k]]]

load_attributes(w, ord) == load_attributes_items(clear_attributes(w, ord))

clear_datasets_end(w, missing) ==
    IF missing = {} THEN [w EXCEPT !._datasets = {}]
    ELSE Raise(w, "AttributeError:clear_datasets")

clear_datasets(w, ord) ==
    clear_datasets_end(
        delattrs(w, Deleted(w._datasets, ord, Missing(w, w._datasets))),
        Missing(w, w._datasets))

\* The loop of load_datasets over the file's arrays.
load_datasets_items(w) ==
    IF w.exc # "" THEN w
    ELSE [w EXCEPT !._datasets = {k \in Names : w.h5_items[k].exists},
                   !.cache = [k \in Names |-> IF w.h5_items[k].exists
                                              THEN Raw(k) ELSE @[k]]]

load_datasets(w, ord) == load_datasets_items(clear_datasets(w, ord))

\* The names of the attributes and of the arrays in the file.
file_attrs_of(w) == {k \in Names : w.attrs[k] # Absent}
file_items_of(w) == {k \in Names : w.h5_items[k].exists}

\* report_file_structure, as far as validate_file_structure reads it: the
\* "valid" flags and whether each "object" difference is None.
report_file_structure(w) ==
    [file_type_valid |-> w.attrs["FileType"] = FILE_TYPE,
     attrs_valid |-> (file_attrs_of(w) = w._file_attrs) \/ (file_items_of(w) = w._datasets),
     attrs_object_none |-> file_attrs_of(w) = w._file_attrs,
     datasets_valid |-> FALSE,
     datasets_object_none |-> file_items_of(w) = w._datasets]

\* The warnings validate_file_structure raises from a report.
report_warnings(report) ==
    (IF ~report.file_type_valid THEN {"file type"} ELSE {})
    \cup (IF ~report.attrs_valid /\ ~report.attrs_object_none
          THEN {"missing attributes"} ELSE {})
    \cup (IF ~report.datasets_valid /\ ~report.datasets_object_none
          THEN {"missing datasets"} ELSE {})

validate_file_structure(w) ==
    [w EXCEPT !.warns = @ \cup report_warnings(report_file_structure(w))]

\* h5py.File(path, mode="a"): a File object other than the one h5_fobj held
\* (the file is created when absent); the raw handles of the cached arrays
\* belong to the previous File object.
File(w) ==
    [w EXCEPT !.h5_fobj = IF @ = 1 THEN 2 ELSE 1, !.fobj_valid = TRUE, !.file_exists = TRUE,
              !.cache = [k \in Names |-> [@[k] EXCEPT !.cur = FALSE]]]

\* The second load of open: skipped when the first one raised.
open_load_datasets(w, ord) == IF w.exc # "" THEN w ELSE load_datasets(w, ord)

\* The "else" of open's try statement, on the File object just assigned.
open_else(w, validate, ord) ==
    open_load_datasets(
        load_attributes(IF validate THEN validate_file_structure(w) ELSE w, ord), ord)

\* A variant of open without the "if not self.is_open" guard.
open_without_guard(w, validate, ord) ==
    open_else(File(w), validate, ord)

\* open(mode="a", exc=False, validate): a no-op when already open; else a new
\* File object, optional validation, and the two loads, whose exceptions
\* leave h5_fobj assigned and open.
open(w, validate, ord) ==
    IF is_open(w) THEN w ELSE open_else(File(w), validate, ord)

close(w) == IF is_open(w) THEN [w EXCEPT !.fobj_valid = FALSE] ELSE w

Return(w, r) == [w EXCEPT !.ret = r]

\* The exit of every scoped accessor: "if not op: self.close()".
restore(w, op) == IF ~op THEN close(w) ELSE w

\* super().__getattribute__("_" + item) at the end of a getter.
getattribute(w, item, where) ==
    IF w.cache[item] = NoAttr THEN Raise(w, where) ELSE Return(w, w.cache[item])

\* A variant of attrs_try_set that caches the value in a "finally" rather
\* than in the "else" of the try statement.
attrs_try_set_finally(w, key, value) ==
    IF value = Unsupported
    THEN Warn([w EXCEPT !._file_attrs = @ \cup {key}, !.cache[key] = AttrVal(value),
                        !.rejected = @ \cup {key}], "Could not set attribute")
    ELSE [w EXCEPT !._file_attrs = @ \cup {key}, !.attrs[key] = value,
                   !.cache[key] = AttrVal(value)]

\* The try/except/else of set_file_attribute and of one entry of
\* add_file_attributes: register the name, write the file, and cache the
\* value only when the write was accepted.
attrs_try_set(w, key, value) ==
    IF value = Unsupported
    THEN Warn([w EXCEPT !._file_attrs = @ \cup {key}, !.rejected = @ \cup {key}],
              "Could not set attribute")
    ELSE [w EXCEPT !._file_attrs = @ \cup {key}, !.attrs[key] = value,
                   !.cache[key] = AttrVal(value)]

\* The try/except of get_file_attribute on the opened container.
get_file_attribute_try(w, item) ==
    IF w.attrs[item] # Absent
    THEN IF w.cache[item] = NoAttr
         THEN Warn(w, "Could not update attribute")
         ELSE IF w.is_updating
              THEN [w EXCEPT !.cache[item] = AttrVal(w.attrs[item])]
              ELSE w
    ELSE w

\* get_file_attribute after its open(): w is the opened container, op
\* whether it was open before the call.
get_file_attribute_opened(w, item, op) ==
    IF w.exc # "" THEN w
    ELSE getattribute(restore(get_file_attribute_try(w, item), op), item,
                      "AttributeError:get_file_attribute")

get_file_attribute(w, item, ord) ==
    get_file_attribute_opened(open(w, FALSE, ord), item, is_open(w))

get_file_attributes_opened(w, op) ==
    IF w.exc # "" THEN w ELSE Return(restore(w, op), Value("attrs"))

get_file_attributes(w, ord) ==
    get_file_attributes_opened(open(w, FALSE, ord), is_open(w))

set_file_attribute_opened(w, key, value, op) ==
    IF w.exc # "" THEN w ELSE restore(attrs_try_set(w, key, value), op)

set_file_attribute(w, key, value, ord) ==
    set_file_attribute_opened(open(w, FALSE, ord), key, value, is_open(w))

RECURSIVE attrs_loop(_, _)
attrs_loop(w, items) ==
    IF items = <<>> THEN w
    ELSE attrs_loop(attrs_try_set(w, Head(items)[1], Head(items)[2]), Tail(items))

\* The names of a sequence of <<name, value>> items.
names_of(items) == {items[i][1] : i \in DOMAIN items}

add_file_attributes_opened(w, items, op) ==
    IF w.exc # "" THEN w ELSE restore(attrs_loop(w, items), op)

\* add_file_attributes after its name check.
add_file_attributes_checked(w, items, ord) ==
    add_file_attributes_opened(open(w, FALSE, ord), items, is_open(w))

add_file_attributes(w, items, ord) ==
    add_file_attributes_checked(
        IF names_of(items) \cap w._datasets # {}
        THEN Warn(w, "Attribute name already exists") ELSE w,
        items, ord)

\* The body of get_dataset on the opened container.
get_dataset_try(w, item) ==
    IF w.h5_items[item].exists /\ w.is_updating
    THEN [w EXCEPT !.cache[item] = Wrapper(item)]
    ELSE w

get_dataset_opened(w, item, op) ==
    IF w.exc # "" THEN w
    ELSE getattribute(restore(get_dataset_try(w, item), op), item,
                      "AttributeError:get_dataset")

get_dataset(w, item, ord) ==
    get_dataset_opened(open(w, FALSE, ord), item, is_open(w))

\* The array a call creates or overwrites with data (None: an empty array).
ArrayOf(data) ==
    IF data = "None" THEN EmptyArray
    ELSE [exists |-> TRUE, descr |-> <<"value">>, rows |-> <<[value |-> data]>>]

\* require_dataset for a name just registered, and the wrapper cached in
\* the "else" of the try statement; accept says whether h5py takes the call.
dataset_require(w, name, array, accept) ==
    IF accept
    THEN [w EXCEPT !.h5_items[name] = IF @.exists THEN @ ELSE array,
                   !.cache[name] = Wrapper(name)]
    ELSE Warn([w EXCEPT !.rejected = @ \cup {name}], "Could not set datasets")

\* The try/except/else of set_dataset; accept says whether h5py takes the
\* write (an existing name) or the require_dataset arguments (a new name).
dataset_try_set(w, name, data, accept) ==
    IF name \in w._datasets
    THEN IF w.h5_items[name].exists /\ accept
         THEN [w EXCEPT !.h5_items[name].rows = [i \in DOMAIN @ |-> [value |-> data]],
                        !.cache[name] = Wrapper(name)]
         ELSE Warn([w EXCEPT !.rejected = @ \cup {name}], "Could not set datasets")
    ELSE dataset_require([w EXCEPT !._datasets = @ \cup {name}], name, ArrayOf(data), accept)

set_dataset_opened(w, name, data, accept, op) ==
    IF w.exc # "" THEN w ELSE restore(dataset_try_set(w, name, data, accept), op)

set_dataset(w, name, data, accept, ord) ==
    set_dataset_opened(open(w, FALSE, ord), name, data, accept, is_open(w))

\* One entry of add_file_datasets: the name is registered unconditionally.
datasets_try_add(w, name, accept) ==
    dataset_require([w EXCEPT !._datasets = @ \cup {name}], name, EmptyArray, accept)

RECURSIVE datasets_loop(_, _)
datasets_loop(w, items) ==
    IF items = <<>> THEN w
    ELSE datasets_loop(datasets_try_add(w, Head(items)[1], Head(items)[2]), Tail(items))

add_file_datasets_opened(w, items, op) ==
    IF w.exc # "" THEN w ELSE restore(datasets_loop(w, items), op)

\* add_file_datasets after its name check.
add_file_datasets_checked(w, items, ord) ==
    add_file_datasets_opened(open(w, FALSE, ord), items, is_open(w))

add_file_datasets(w, items, ord) ==
    add_file_datasets_checked(
        IF names_of(items) \cap w._file_attrs # {}
        THEN Warn(w, "Dataset name already exists") ELSE w,
        items, ord)

\* The end of create_file and of construct_file_attributes' caller:
\* "if not open_: self.close()".
close_unless(w, open_) == IF w.exc # "" \/ open_ THEN w ELSE close(w)

create_file_opened(w, ord) ==
    IF w.exc # "" THEN w ELSE add_file_attributes(w, default_attrs, ord)

\* create_file of HDF5container: default_datasets is empty.
create_file(w, open_, ord) ==
    close_unless(create_file_opened(open(w, FALSE, ord), ord), open_)

\* A variant of construct that applies the defaults whether or not the
\* file exists.
construct_create(w, open_, ord) == create_file(w, open_, ord)

construct(w, open_, ord) ==
    IF w.file_exists
    THEN close_unless(open(w, TRUE, ord), open_)
    ELSE create_file(w, open_, ord)

\* __enter__ and __exit__.
enter(w, ord) == IF w.h5_fobj = 0 THEN construct(w, TRUE, ord) ELSE open(w, FALSE, ord)
exit(w) == close(w)

---------------------------------------------------------------------------
(* HDF5dataset: the wrapper of one array of the container.  The raw h5py   *)
(* dataset in _dataset is modelled by whether it is still valid            *)
(* (bool(self._dataset)): h5py invalidates every object of a file when     *)
(* the file is closed.                                                     *)

\* A Python bool as stored in _container_was_open, which starts as None.
PyBool(b) == IF b THEN "True" ELSE "False"

\* HDF5dataset(self.h5_fobj[name], self): construct() stores the raw handle
\* and the name.  returned says whether a caller holds the object.
NewDataset(name) ==
    [_name |-> name, _dataset |-> TRUE, _container_was_open |-> "None", returned |-> FALSE]

\* The container with its file, the HDF5dataset objects, and the route by
\* which the last element access reached the array.
Handles == [c |-> World, handles |-> handles, cached |-> cached, via |-> ""]

\* bool(self._dataset)
dataset_valid(s, i) == s.handles[i]._dataset

\* The raw handles after a step that may have closed the file.
invalidate(s) ==
    IF is_open(s.c) THEN s
    ELSE [s EXCEPT !.handles = [j \in DOMAIN @ |-> [@[j] EXCEPT !._dataset = FALSE]]]

\* The object in "_X" after a step that may have reloaded the caches:
\* load_datasets stores raw h5py datasets, not HDF5dataset objects.
untrack(s) == IF s.c.cache["X"].kind = "HDF5dataset" THEN s ELSE [s EXCEPT !.cached = 0]

\* self._container.open() and self._container.close() as the wrapper calls them.
container_open(s, ord) == untrack([s EXCEPT !.c = open(@, FALSE, ord)])
container_close(s) == invalidate([s EXCEPT !.c = close(@)])

\* The objects no longer referred to, neither by "_X" nor by a caller.
freed(s) == {j \in DOMAIN s.handles : ~s.handles[j].returned /\ j # s.cached}

\* Where a new object is kept: in the place of a freed one when there is
\* one, as a further object otherwise.
slot(s) ==
    IF freed(s) = {} THEN Len(s.handles) + 1
    ELSE CHOOSE j \in freed(s) : \A k \in freed(s) : j <= k

\* The objects once a call has ended: a freed object holds nothing.
collect(s) ==
    [s EXCEPT !.handles = [j \in DOMAIN @ |->
        IF j \in freed(s) THEN [NewDataset(@[j]._name) EXCEPT !._dataset = FALSE] ELSE @[j]]]

\* A new HDF5dataset object stored in "_" + name by the container.
construct_dataset(s, name) ==
    IF slot(s) = Len(s.handles) + 1
    THEN [s EXCEPT !.handles = Append(@, NewDataset(name)), !.cached = slot(s)]
    ELSE [s EXCEPT !.handles[slot(s)] = NewDataset(name), !.cached = slot(s)]

\* self._dataset = self._container.h5_fobj[self._name]
dataset_open_resolve(s, i) ==
    IF s.c.exc # "" THEN s
    ELSE IF s.c.h5_items[s.handles[i]._name].exists
         THEN [s EXCEPT !.handles[i]._dataset = TRUE]
         ELSE [s EXCEPT !.c = Raise(@, "KeyError")]

\* self._container_was_open = self._container.is_open
dataset_open_was(s, i) ==
    [s EXCEPT !.handles[i]._container_was_open = PyBool(is_open(s.c))]

\* HDF5dataset.open
dataset_open(s, i, ord) ==
    IF dataset_valid(s, i) THEN dataset_open_was(s, i)
    ELSE dataset_open_resolve(container_open(dataset_open_was(s, i), ord), i)

\* HDF5dataset.close: "if not self._container_was_open"
dataset_close(s, i) ==
    IF s.handles[i]._container_was_open = "True" THEN s ELSE container_close(s)

\* Element 0 of the array named name, read from the file now open.
dataset_read(s, name, via) ==
    [s EXCEPT !.c = Return(@, Value(@.h5_items[name].rows[1].value)), !.via = via]

\* Element 0 of the array named name, written to the file now open.
dataset_write(s, name, value, via) ==
    [s EXCEPT !.c.h5_items[name].rows[1].value = value, !.via = via]

\* The body and the exit of "with self:" in __getitem__; __exit__ does not
\* run when __enter__ raised.
dataset_getitem_entered(s, i) ==
    IF s.c.exc # "" THEN s
    ELSE dataset_close(dataset_read(s, s.handles[i]._name, "h5_fobj"), i)

\* A variant of __getitem__ that always reads through the raw handle it
\* holds; h5py raises ValueError on a handle of a closed file.
dataset_getitem_held(s, i, ord) ==
    IF dataset_valid(s, i) THEN dataset_read(s, s.handles[i]._name, "_dataset")
    ELSE [s EXCEPT !.c = Raise(@, "ValueError"), !.via = "_dataset"]

\* HDF5dataset.__getitem__
dataset_getitem(s, i, ord) ==
    IF dataset_valid(s, i) THEN dataset_read(s, s.handles[i]._name, "_dataset")
    ELSE dataset_getitem_entered(dataset_open(s, i, ord), i)

dataset_setitem_entered(s, i, value) ==
    IF s.c.exc # "" THEN s
    ELSE dataset_close(dataset_write(s, s.handles[i]._name, value, "h5_fobj"), i)

\* HDF5dataset.__setitem__
dataset_setitem(s, i, value, ord) ==
    IF dataset_valid(s, i) THEN dataset_write(s, s.handles[i]._name, value, "_dataset")
    ELSE dataset_setitem_entered(dataset_open(s, i, ord), i, value)

\* a == b for two HDF5dataset objects: the class defines no __eq__, so
\* object.__eq__ compares identities.
dataset_eq(a, b) == a = b

\* Whether get_dataset constructs a new HDF5dataset rather than return the
\* object in "_" + item.
get_dataset_constructs(w, item) == w.h5_items[item].exists /\ w.is_updating

---------------------------------------------------------------------------
(* Values stored in arrays, and bidict *)

TYPE_NAME == "Type"
LINK_NAME == "LinkID"

\* Python values: a kind and a literal.  Numbers compare equal whether int
\* or float, so both are of kind num.
Num(n) == [t |-> "num", v |-> ToString(n)]
Str(s) == [t |-> "str", v |-> s]
Datetime(n) == [t |-> "datetime", v |-> ToString(n)]
UUID(s) == [t |-> "uuid", v |-> s]
None == [t |-> "none", v |-> ""]

\* str(id_)
str(x) == IF x.t = "none" THEN Str("None") ELSE Str(x.v)

\* item_to_np: a datetime becomes its timestamp, a UUID its string.
item_to_np(item) ==
    IF item.t = "datetime" THEN [t |-> "num", v |-> item.v]
    ELSE IF item.t = "uuid" THEN str(item)
    ELSE item

\* The value resize() fills a new row's field with.
Zero(dtype) == IF dtype = "str" THEN Str("") ELSE Num(0)

\* A dtype.descr is a sequence of <<field, dtype>>.
FieldsOf(descr) == {descr[i][1] : i \in DOMAIN descr}
DtypeOf(descr, field) == descr[CHOOSE i \in DOMAIN descr : descr[i][1] = field][2]
ZeroRow(descr) == [f \in FieldsOf(descr) |-> Zero(DtypeOf(descr, f))]

\* A bidict is a one-to-one set of <<key, value>> pairs.
HasKey(b, k) == \E p \in b : p[1] = k
HasValue(b, v) == \E p \in b : p[2] = v
Lookup(b, k) == (CHOOSE p \in b : p[1] = k)[2]
LookupInverse(b, v) == (CHOOSE p \in b : p[2] = v)[1]
\* b[k] = v raises ValueDuplicationError when v is the value of another key,
\* and otherwise replaces the pair of k.
ValueDuplication(b, k, v) == \E p \in b : p[2] = v /\ p[1] # k
Put(b, k, v) == {p \in b : p[1] # k} \cup {<<k, v>>}
\* b.inverse[v] = k raises when k is the key of another value.
KeyDuplication(b, k, v) == \E p \in b : p[1] = k /\ p[2] # v
PutInverse(b, k, v) == {p \in b : p[2] # v} \cup {<<k, v>>}

---------------------------------------------------------------------------
(* HDF5referenceDataset: one array and the index over its reference field. *)
(* A location (i - 1, 0) of the array is written i; 0 stands for None.     *)

DatasetNames == {"Events", "Lever", "Tone", "TimeSet", "ResumeTime", "Trigger"}

NoDataset == [exists |-> FALSE, descr |-> <<>>, rows |-> <<>>,
              reference_field |-> "", references |-> {}]

\* HDF5referenceDataset(dataset, reference_field) over rows already in the file.
ReferenceDataset(descr, rows, reference_field) ==
    [exists |-> TRUE, descr |-> descr, rows |-> rows,
     reference_field |-> reference_field, references |-> {}]

\* The objects a call works on, and what the call raises, reports and returns.
Links == [dataset_links |-> dataset_links, child_datasets |-> child_datasets,
          uuids |-> uuids, exc |-> "", warns |-> {}, index |-> 0, id |-> None,
          indices |-> [n \in DatasetNames |-> 0], item |-> <<>>,
          data |-> [n \in DatasetNames |-> <<>>], items |-> <<>>,
          position |-> 0, first |-> 0,
          start_datetime |-> start_datetime, start_time_counter |-> start_time_counter,
          start_time_offset |-> start_time_offset, triggers |-> 0, parent_name |-> parent_name]

Self(w, name) == w.dataset_links[name]

\* "except Exception as e: warn(e)"
Caught(w) == IF w.exc # "" THEN [w EXCEPT !.exc = "", !.warns = @ \cup {w.exc}] ELSE w

\* uuid.uuid4(): an id no earlier call has produced.
uuid4(w) == [w EXCEPT !.uuids = @ + 1, !.id = UUID("g" \o ToString(w.uuids + 1))]

\* np.where(self.reference_array == str(id_))
where(w, name, id_) ==
    {i \in DOMAIN Self(w, name).rows :
        Self(w, name).rows[i][Self(w, name).reference_field] = str(id_)}

\* find_index: None without a match, KeyError with more than one.
find_index(w, name, id_) ==
    IF Cardinality(where(w, name, id_)) > 1 THEN Raise(w, "KeyError")
    ELSE IF where(w, name, id_) = {} THEN [w EXCEPT !.index = 0]
    ELSE [w EXCEPT !.index = CHOOSE i \in where(w, name, id_) : TRUE]

\* self.references[id_] = index
references_setitem(w, name, id_, index) ==
    IF ValueDuplication(Self(w, name).references, id_, index)
    THEN Raise(w, "ValueDuplicationError")
    ELSE [w EXCEPT !.dataset_links[name].references = Put(@, id_, index)]

\* The try block of get_index, after find_index.
get_index_try(w, name, id_) ==
    IF w.exc # "" THEN w
    ELSE IF w.index # 0 THEN references_setitem(w, name, id_, w.index)
    ELSE Raise(w, "KeyError")

\* "finally: return self.references[id_]"
get_index_finally(w, name, id_) ==
    IF HasKey(Self(w, name).references, id_)
    THEN [w EXCEPT !.index = Lookup(Self(w, name).references, id_)]
    ELSE Raise(w, "KeyError")

get_index(w, name, id_) ==
    get_index_finally(Caught(get_index_try(find_index(w, name, id_), name, id_)), name, id_)

\* find_id: uuid.UUID of the stored string, None when it is not a UUID.
find_id(w, name, index) ==
    IF Self(w, name).rows[index][Self(w, name).reference_field] = Zero("str") THEN None
    ELSE UUID(Self(w, name).rows[index][Self(w, name).reference_field].v)

\* self.references.inverse[index] = id_
inverse_setitem(w, name, index, id_) ==
    IF KeyDuplication(Self(w, name).references, id_, index)
    THEN Raise(w, "KeyDuplicationError")
    ELSE [w EXCEPT !.dataset_links[name].references = PutInverse(@, id_, index)]

\* "finally: return self.references.inverse[index]"
get_id_finally(w, name, index) ==
    IF HasValue(Self(w, name).references, index)
    THEN [w EXCEPT !.id = LookupInverse(Self(w, name).references, index)]
    ELSE Raise(w, "KeyError")

get_id(w, name, index) ==
    get_id_finally(Caught(inverse_setitem(w, name, index, find_id(w, name, index))),
                   name, index)

\* set_reference: write str(id_) into the row, then register the pair.
set_reference(w, name, index, id_) ==
    references_setitem(
        [w EXCEPT !.dataset_links[name].rows[index][Self(w, name).reference_field] = str(id_)],
        name, id_, index)

\* self.dataset.resize(new_shape, axis) with axis 0: one more, zero-filled row.
resize(w, name) ==
    [w EXCEPT !.dataset_links[name].rows = Append(@, ZeroRow(Self(w, name).descr))]

\* A variant of new_reference_set that writes the row and leaves the index
\* as it was.
new_reference_set_unregistered(w, name, id_) ==
    [w EXCEPT !.dataset_links[name].rows[Len(Self(w, name).rows)][Self(w, name).reference_field]
                  = str(id_),
              !.id = id_]

\* new_reference after the resize: id_ is None or the caller's id.
new_reference_set(w, name, id_) ==
    [set_reference(w, name, Len(Self(w, name).rows), id_) EXCEPT !.id = id_]

new_reference_id(w, name, id_) ==
    IF id_ = None THEN new_reference_set(uuid4(w), name, uuid4(w).id)
    ELSE new_reference_set(w, name, id_)

\* A variant of new_reference that grows an empty array only and writes the
\* id into the last row otherwise.
new_reference_overwriting(w, name, id_) ==
    new_reference_id(IF Self(w, name).rows = <<>> THEN resize(w, name) ELSE w, name, id_)

\* new_reference(index=None, axis=0, id_)
new_reference(w, name, id_) == new_reference_id(resize(w, name), name, id_)

---------------------------------------------------------------------------
(* HDF5linkedDatasets: the reference datasets that share link ids *)

\* A dict is a function from its keys.
Restrict(d, keys) == [f \in keys |-> d[f]]

merge_dict(dict1, dict2) ==
    [f \in DOMAIN dict1 \cup DOMAIN dict2 |-> IF f \in DOMAIN dict2 THEN dict2[f] ELSE dict1[f]]

\* np_to_dict: one entry per field of the row's dtype.
np_to_dict(descr, row) == [f \in FieldsOf(descr) |-> row[f]]

\* dict_to_np(item, descr, pop=True) raises KeyError when item lacks a field.
dict_to_np_raises(item, descr) == ~(FieldsOf(descr) \subseteq DOMAIN item)
dict_to_np(item, descr) == [f \in FieldsOf(descr) |-> item_to_np(item[f])]

\* The names registered in self.references, in the order of the dict.
Registered(w) ==
    SelectSeq(<<"Events", "Lever", "Tone", "TimeSet", "ResumeTime", "Trigger">>,
              LAMBDA n : w.dataset_links[n].exists)

\* A variant of new_link_reference that passes over a name that is not
\* registered.
new_link_reference_registered(w, name, id_) ==
    IF ~Self(w, name).exists THEN w ELSE new_reference(w, name, id_)

\* "self.references[name].new_reference(axis=axis, id_=id_)": KeyError for a
\* name that is not registered.
new_link_reference(w, name, id_) ==
    IF ~Self(w, name).exists THEN Raise(w, "KeyError") ELSE new_reference(w, name, id_)

\* One step of new_link's loop over its locations.
RECURSIVE new_link_loop(_, _, _)
new_link_loop(w, locations, id_) ==
    IF locations = <<>> \/ w.exc # "" THEN w
    ELSE new_link_loop(new_link_reference(w, Head(locations), id_), Tail(locations), id_)

\* new_link after "id_ = uuid.uuid4()"; the id is returned in w.id.
new_link_id(w, locations) == new_link_loop(w, locations, w.id)

\* A variant of new_link that takes the "not locations" branch: a row in
\* every registered dataset.
new_link_every_dataset(w, locations) == new_link_id(uuid4(w), Registered(w))

\* new_link(locations, axis=0, id_=None) for a sequence of names.
new_link(w, locations) == new_link_id(uuid4(w), locations)

\* A variant of new_link_locations without the "not locations" branch.
new_link_locations_given(w, locations, id_) ==
    new_link_id(IF id_ = None THEN uuid4(w) ELSE [w EXCEPT !.id = id_], locations)

\* new_link(locations, axis=0, id_) for a sequence of names, a row in every
\* registered dataset when the sequence is empty.
new_link_locations(w, locations, id_) ==
    new_link_id(IF id_ = None THEN uuid4(w) ELSE [w EXCEPT !.id = id_],
                IF locations = <<>> THEN Registered(w) ELSE locations)

\* "item[self.reference_field] = id_"
item_with_id(w, name) ==
    merge_dict(w.item, [f \in {Self(w, name).reference_field} |-> w.id])

\* The array writes of set_item: the row, then the pair in the index.
set_item_write(w, name, index) ==
    IF dict_to_np_raises(item_with_id(w, name), Self(w, name).descr)
    THEN Raise(w, "KeyError")
    ELSE references_setitem(
            [w EXCEPT !.dataset_links[name].rows[index] =
                          dict_to_np(item_with_id(w, name), Self(w, name).descr),
                      !.item = Restrict(@, DOMAIN @ \ FieldsOf(Self(w, name).descr))],
            name, w.id, index)

\* set_item after get_id(location): a row without an id gets a new one.
set_item_id(w, name, index) ==
    IF w.exc # "" THEN w
    ELSE set_item_write(IF w.id = None THEN uuid4(w) ELSE w, name, index)

\* set_item(item, location, pop=True) for a location that is an index; the
\* item is w.item.
set_item(w, name, index) == set_item_id(get_id(w, name, index), name, index)

\* get_item for an index, and for an id after get_index.
get_item_index(w, name, index) ==
    [w EXCEPT !.data[name] = np_to_dict(Self(w, name).descr, Self(w, name).rows[index])]
get_item_found(w, name) == IF w.exc # "" THEN w ELSE get_item_index(w, name, w.index)
get_item_id(w, name, id_) == get_item_found(get_index(w, name, id_), name)

\* result[name] = references.get_references(id_)
get_indices_set(w, name) == IF w.exc # "" THEN w ELSE [w EXCEPT !.indices[name] = w.index]

\* "if id_ in references: result[name] = ...", after __contains__ has
\* called find_index.
get_indices_contains(w, name, id_) ==
    IF w.exc # "" \/ w.index = 0 THEN w ELSE get_indices_set(get_index(w, name, id_), name)

\* get_indices(id_): every registered dataset that holds the id.
RECURSIVE get_indices_all(_, _, _)
get_indices_all(w, id_, names) ==
    IF names = <<>> \/ w.exc # "" THEN w
    ELSE get_indices_all(get_indices_contains(find_index(w, Head(names), id_), Head(names), id_),
                         id_, Tail(names))

\* get_indices(id_, datasets): the named datasets.
RECURSIVE get_indices(_, _, _)
get_indices(w, id_, datasets) ==
    IF datasets = <<>> \/ w.exc # "" THEN w
    ELSE get_indices(get_indices_set(get_index(w, Head(datasets), id_), Head(datasets)),
                     id_, Tail(datasets))

NoIndices == [n \in DatasetNames |-> 0]

\* The loop of set_linked_data over valid_children.
RECURSIVE set_linked_children(_, _, _)
set_linked_children(w, name, children) ==
    IF children = <<>> \/ w.exc # "" THEN w
    ELSE set_linked_children(
            IF Head(children) = name THEN w
            ELSE set_item(w, Head(children), w.indices[Head(children)]),
            name, Tail(children))

\* set_linked_data after both index lookups.
set_linked_data_items(w, name, main_index, children) ==
    IF w.exc # "" THEN w
    ELSE set_linked_children(set_item(w, name, main_index), name, children)

\* set_linked_data after get_index(name, location).
set_linked_data_main(w, name, id_, children) ==
    IF w.exc # "" THEN w
    ELSE set_linked_data_items(get_indices([w EXCEPT !.indices = NoIndices], id_, children),
                               name, w.index, children)

\* set_linked_data(name, location, item, children) for a location that is
\* an id.
set_linked_data(w, name, id_, children) ==
    set_linked_data_main(get_index(w, name, id_), name, id_, children)

append_linked_data_set(w, name, children) ==
    IF w.exc # "" THEN w ELSE set_linked_data(w, name, w.id, children)

\* append_linked_data: datasets is the set {name} | set(children) in the
\* order new_link iterates it.
append_linked_data(w, name, children, datasets) ==
    append_linked_data_set(new_link(w, datasets), name, children)

\* "result[name] = self.references[name][child_index]"
get_item_child(w, child) ==
    IF w.exc # "" THEN w ELSE get_item_index(w, child, w.indices[child])

\* get_linked_data after get_indices(location): the parent's item by id and
\* the child's by index.
get_linked_data_items(w, name, id_, child) ==
    IF w.exc # "" THEN w
    ELSE IF w.indices[child] = 0 THEN Raise(w, "KeyError")
    ELSE IF child = name THEN get_item_id(w, name, id_)
    ELSE get_item_child(get_item_id(w, name, id_), child)

\* get_linked_data(name, location, children) for a location that is a string
\* and one child; uuid.UUID raises ValueError on the string of an empty field.
get_linked_data(w, name, location, child) ==
    IF location = Zero("str") THEN Raise(w, "ValueError")
    ELSE get_linked_data_items(
            get_indices_all([w EXCEPT !.indices = NoIndices], UUID(location.v), Registered(w)),
            name, UUID(location.v), child)

---------------------------------------------------------------------------
(* HDF5hierarchicalDatasets and HDF5eventLogger over the parent "Events" *)

EVENT_FIELDS == {"Time", "DeltaTime", "StartTime", "Type"}

\* The keys of an event in the order of the dict.
KeyOrder == <<"Time", "DeltaTime", "StartTime", "Type", "value", "extra", LINK_NAME>>
keys(event) == SelectSeq(KeyOrder, LAMBDA f : f \in DOMAIN event)

\* event2dtype: int, float and datetime values give a number field, every
\* other value a string field.
np_dtype(value) == IF value.t \in {"num", "datetime"} THEN "num" ELSE "str"
event2dtype(event) ==
    [i \in DOMAIN keys(event) |-> <<keys(event)[i], np_dtype(event[keys(event)[i]])>>]

\* child_event of append_event: the event without the parent's fields, with
\* a link id.
child_event(event, id_) ==
    merge_dict([f \in {LINK_NAME} |-> str(id_)], Restrict(event, DOMAIN event \ EVENT_FIELDS))

\* create_event_dataset and add_child_dataset: an empty array with the
\* inferred dtype, registered under the Type's name.
add_child_dataset(w, event) ==
    [w EXCEPT !.dataset_links[event[TYPE_NAME].v] =
                  ReferenceDataset(event2dtype(child_event(event, w.id)), <<>>, LINK_NAME),
              !.child_datasets = @ \cup {event[TYPE_NAME].v}]

\* A variant of append_event that creates the child array at every event.
append_event_child_always(w, event) ==
    add_child_dataset(IF LINK_NAME \in DOMAIN event THEN w ELSE uuid4(w), event)

\* The "if child_name not in self.hierarchy.child_datasets" of append_event.
append_event_child(w, event) ==
    IF event[TYPE_NAME].v \in w.child_datasets THEN w
    ELSE add_child_dataset(IF LINK_NAME \in DOMAIN event THEN w ELSE uuid4(w), event)

\* append_event(event); append_item passes the Type as the only child.
append_event(w, event, datasets) ==
    append_linked_data(append_event_child([w EXCEPT !.item = event], event),
                       "Events", <<event[TYPE_NAME].v>>, datasets)

\* The end of get_data: merge the two items and pop the link fields.
get_data_merge(w, child_name) ==
    IF w.exc # "" THEN w
    ELSE [w EXCEPT !.item =
            Restrict(merge_dict(w.data["Events"], w.data[child_name]),
                     DOMAIN merge_dict(w.data["Events"], w.data[child_name])
                        \ {Self(w, "Events").reference_field, Self(w, child_name).reference_field})]

\* get_data(parent_ref, child_name) for a parent_ref that is a link id string.
get_data(w, parent_ref, child_name) ==
    IF child_name \notin DatasetNames THEN Raise(w, "KeyError")
    ELSE IF ~Self(w, child_name).exists THEN Raise(w, "KeyError")
    ELSE get_data_merge(get_linked_data(w, "Events", parent_ref, child_name), child_name)

\* get_items(indices) for the index of one row.
get_items(w, index) ==
    get_data(w, Self(w, "Events").rows[index][LINK_NAME],
             Self(w, "Events").rows[index][TYPE_NAME].v)

\* The rows data[child_names == name] (data[child_names != name] for the
\* parent's name) selects, in the order of the array.
Masked(w, name) ==
    SelectSeq([i \in DOMAIN Self(w, "Events").rows |-> i],
              LAMBDA i : (Self(w, "Events").rows[i][TYPE_NAME].v = name) = (name # "Events"))

\* output.append(func(items=previous, **kwargs))
output_append(w) == IF w.exc # "" THEN w ELSE [w EXCEPT !.items = Append(@, w.item)]

\* recursive_looping over the selected rows with arrays_to_items.
RECURSIVE recursive_looping(_, _)
recursive_looping(w, loop) ==
    IF loop = <<>> \/ w.exc # "" THEN w
    ELSE recursive_looping(output_append(get_items(w, Head(loop))), Tail(loop))

\* A variant of get_event_type that does not mask the parent array.
get_event_type_unmasked(w, name) ==
    IF name \notin w.child_datasets /\ name # "Events" THEN Raise(w, "KeyError")
    ELSE recursive_looping(w, [i \in DOMAIN Self(w, "Events").rows |-> i])

\* get_event_type(name): HDF5hierarchicalDatasets.get_dataset(name)
get_event_type(w, name) ==
    IF name \notin w.child_datasets /\ name # "Events" THEN Raise(w, "KeyError")
    ELSE recursive_looping(w, Masked(w, name))

\* The length of the streams find_event searches, and the ticks of the
\* counter that pass while the time base is in use.
MaxStream == 2
MaxTicks == 4

\* The number a stored value or a query time holds.
number(x) == CHOOSE n \in 0..(2 * MaxStream + 2 + MaxTicks) : ToString(n) = x.v

\* time_.timestamp() for a datetime, time_ itself for a number.
time_stamp(time_) == item_to_np(time_)

\* bisect.bisect_left(a, x, lo, hi) over a 0-based list; a[mid] is a[mid + 1]
\* of the sequence.
RECURSIVE bisect_left(_, _, _, _)
bisect_left(a, x, lo, hi) ==
    IF lo >= hi THEN lo
    ELSE IF number(a[((lo + hi) \div 2) + 1]) < number(x)
         THEN bisect_left(a, x, ((lo + hi) \div 2) + 1, hi)
         ELSE bisect_left(a, x, lo, (lo + hi) \div 2)

\* self.Events[self.TIME_NAME]: the Time column of the parent array.
parent_times(w) == [i \in DOMAIN Self(w, "Events").rows |-> Self(w, "Events").rows[i]["Time"]]

\* [e[self.TIME_NAME] for e in events]
event_times(events) == [k \in DOMAIN events |-> events[k]["Time"]]

\* "times[index] == time_": a stored number never equals a datetime.
times_eq(stored, time_) == time_.t = "num" /\ number(stored) = number(time_)

Abs(n) == IF n < 0 THEN -n ELSE n

\* (np.abs(times[index-1:index+1] - time_)).argmin(): the first of the
\* smallest distances.
argmin(times, index, time_) ==
    IF Abs(number(times[index]) - number(time_)) <= Abs(number(times[index + 1]) - number(time_))
    THEN 0 ELSE 1

\* "return index, events[index]": events is the logger for the parent stream
\* and the list get_dataset returned for a child's.
find_event_return(w, list, index) ==
    IF index < 0 THEN Raise(w, "IndexError")
    ELSE IF list THEN [w EXCEPT !.position = index, !.item = w.items[index + 1]]
    ELSE [get_items(w, index + 1) EXCEPT !.position = index]

\* The "bisect" branch: a list, and an array with a datetime, have no
\* subtraction (TypeError).
find_event_bisect(w, times, list, time_, index) ==
    IF index > 0
    THEN IF list \/ time_.t = "datetime" THEN Raise(w, "TypeError")
         ELSE find_event_return(w, list, index - (1 - argmin(times, index, time_)))
    ELSE find_event_return(w, list, index)

\* find_event after "index = bisect.bisect_left(times, time_stamp)".
find_event_index(w, times, list, time_, bisect_, index) ==
    IF index >= Len(times) THEN find_event_return(w, list, index - 1)
    ELSE IF times_eq(times[index + 1], time_) THEN find_event_return(w, list, index)
    ELSE IF bisect_ = "bisect" THEN find_event_bisect(w, times, list, time_, index)
    ELSE IF bisect_ = "left" THEN find_event_return(w, list, IF index > 0 THEN index - 1 ELSE index)
    ELSE IF bisect_ = "right" THEN find_event_return(w, list, index)
    ELSE [w EXCEPT !.position = -1, !.item = <<>>]

find_event_times(w, times, list, time_, bisect_) ==
    find_event_index(w, times, list, time_, bisect_,
                     bisect_left(times, time_stamp(time_), 0, Len(times)))

\* find_event on a child Type's stream, after get_dataset(name=type_).
find_event_events(w, time_, bisect_) ==
    IF w.exc # "" THEN w
    ELSE find_event_times(w, event_times(w.items), TRUE, time_, bisect_)

\* find_event(time_, type_, bisect_); type_ is "Events" or a child Type.
find_event(w, time_, type_, bisect_) ==
    IF type_ = "Events" THEN find_event_times(w, parent_times(w), FALSE, time_, bisect_)
    ELSE find_event_events(get_event_type([w EXCEPT !.items = <<>>], type_), time_, bisect_)

\* events[first:last+1] of a list, with the slice's clipping.
Slice(events, first, last) ==
    [k \in 1..(IF last < first THEN 0 ELSE last - first + 1) |-> events[first + k]]

\* The indices of range(first, last + 1), as parent rows.
range_rows(first, last) ==
    [k \in 1..(IF last < first THEN 0 ELSE last - first + 1) |-> first + k]

\* "return range(first, last+1), events[first:last+1]" with last in
\* w.position: the logger's slice reads the parent rows one by one, the list
\* get_dataset returned (left in w.items by find_event) is sliced.
find_event_range_return(w, type_, first) ==
    IF w.exc # "" THEN w
    ELSE IF type_ = "Events"
         THEN [recursive_looping([w EXCEPT !.items = <<>>], range_rows(first, w.position))
                  EXCEPT !.first = first, !.position = w.position]
         ELSE [w EXCEPT !.items = Slice(w.items, first, w.position), !.first = first]

\* find_event_range after the first find_event: the second, for the end.
find_event_range_last(w, end, type_) ==
    IF w.exc # "" THEN w
    ELSE find_event_range_return(find_event(w, end, type_, "left"), type_, w.position)

\* find_event_range after "events = ...".
find_event_range_first(w, start, end, type_) ==
    IF w.exc # "" THEN w
    ELSE find_event_range_last(find_event(w, start, type_, "right"), end, type_)

\* find_event_range(start, end, type_)
find_event_range(w, start, end, type_) ==
    IF type_ = "Events" THEN find_event_range_first(w, start, end, type_)
    ELSE find_event_range_first(get_event_type([w EXCEPT !.items = <<>>], type_), start, end, type_)

\* get_linked_data(name, location, children) for a location that is an
\* index: after get_indices(id_), the parent's item by index and the child's.
get_linked_data_index_items(w, name, index, child) ==
    IF w.exc # "" THEN w
    ELSE IF w.indices[child] = 0 THEN Raise(w, "KeyError")
    ELSE get_item_child(get_item_index(w, name, index), child)

\* get_linked_indices(name, location) after get_id(name, location).
get_linked_data_index_id(w, name, index, child) ==
    IF w.exc # "" THEN w
    ELSE get_linked_data_index_items(
            get_indices_all([w EXCEPT !.indices = NoIndices], w.id, Registered(w)),
            name, index, child)

get_linked_data_index(w, name, index, child) ==
    get_linked_data_index_id(get_id(w, name, index), name, index, child)

\* get_data(parent_ref, child_name) for a parent_ref that is an index.
get_data_index(w, parent_index, child_name) ==
    get_data_merge(get_linked_data_index(w, "Events", parent_index, child_name), child_name)

\* HDF5hierarchicalDatasets.get_item(index, name) for a child's name, after
\* get_indices(id_, self.parent_name).
hierarchy_get_item_parent(w, name) ==
    IF w.exc # "" THEN w ELSE get_data_index(w, w.indices["Events"], name)

\* ... after get_id(name, index) of get_linked_indices.
hierarchy_get_item_indices(w, name) ==
    IF w.exc # "" THEN w
    ELSE hierarchy_get_item_parent(get_indices([w EXCEPT !.indices = NoIndices], w.id, <<"Events">>),
                                   name)

\* A variant of row_of that reads a negative index as the first row.
row_of_first(w, name, index) == IF index < 0 THEN 1 ELSE index + 1

\* get_id(index) for an int: "if index < 0: index = shape[0] - 1"; row i of
\* the model is index i - 1.
row_of(w, name, index) == IF index < 0 THEN Len(Self(w, name).rows) ELSE index + 1

\* HDF5hierarchicalDatasets.get_item(index, name): KeyError for a name that
\* is not registered and for an index outside the array.
hierarchy_get_item(w, index, name) ==
    IF ~Self(w, name).exists THEN Raise(w, "KeyError")
    ELSE IF row_of(w, name, index) \notin DOMAIN Self(w, name).rows THEN Raise(w, "KeyError")
    ELSE hierarchy_get_item_indices(get_id(w, name, row_of(w, name, index)), name)

\* datetime.datetime.now() and time.perf_counter() when t ticks have passed:
\* a microsecond is three ticks of the counter.
now(t) == Datetime(t \div 3)
perf_counter(t) == Num(t)

\* round(x, 6) of a time in ticks: the nearest microsecond.
round6(ticks) == (ticks + 1) \div 3

\* start_datetime + datetime.timedelta(seconds=seconds)
plus_seconds(datetime, seconds) == Datetime(number(datetime) + seconds)

\* "seconds = self.start_time_offset + round(time.perf_counter() -
\* self.start_time_counter, 6)"
seconds_of(w, t) ==
    number(w.start_time_offset) + round6(number(perf_counter(t)) - number(w.start_time_counter))

\* A variant of create_event that leaves out the offset.
create_event_since_anchor(w, t, type_, fields) ==
    IF w.start_time_counter = None \/ w.start_time_offset = None THEN Raise(w, "TypeError")
    ELSE [w EXCEPT !.item =
            merge_dict([Time |-> plus_seconds(w.start_datetime,
                                              seconds_of(w, t) - number(w.start_time_offset)),
                        DeltaTime |-> Num(seconds_of(w, t) - number(w.start_time_offset)),
                        StartTime |-> w.start_datetime,
                        Type |-> Str(type_)],
                       fields)]

\* create_event(type_, **kwargs): TypeError without a time base.
create_event(w, t, type_, fields) ==
    IF w.start_time_counter = None \/ w.start_time_offset = None THEN Raise(w, "TypeError")
    ELSE [w EXCEPT !.item =
            merge_dict([Time |-> plus_seconds(w.start_datetime, seconds_of(w, t)),
                        DeltaTime |-> Num(seconds_of(w, t)),
                        StartTime |-> w.start_datetime,
                        Type |-> Str(type_)],
                       fields)]

\* append(type_, **kwargs) after create_event.
append_created(w, datasets) == IF w.exc # "" THEN w ELSE append_event(w, w.item, datasets)
append(w, t, type_, fields, datasets) == append_created(create_event(w, t, type_, fields), datasets)

\* trigger(): self.io_trigger.trigger(), a call of the audio trigger that
\* returns or raises (fails).
trigger(w, fails) ==
    IF fails THEN Raise([w EXCEPT !.triggers = @ + 1], "TriggerError")
    ELSE [w EXCEPT !.triggers = @ + 1]

\* The append of trigger_event, reached when trigger() returned.
trigger_event_append(w, t, fields, datasets) ==
    IF w.exc # "" THEN w ELSE append(w, t, "Trigger", fields, datasets)

\* A variant of trigger_event that logs the event before it calls the
\* trigger.
trigger_event_logged_first(w, t, fields, fails, datasets) ==
    IF append(w, t, "Trigger", fields, datasets).exc # ""
    THEN append(w, t, "Trigger", fields, datasets)
    ELSE trigger(append(w, t, "Trigger", fields, datasets), fails)

\* trigger_event(**kwargs)
trigger_event(w, t, fields, fails, datasets) ==
    trigger_event_append(trigger(w, fails), t, fields, datasets)

\* The marker event of set_time.
time_set_event(w) ==
    [Time |-> w.start_datetime, DeltaTime |-> Num(0), StartTime |-> w.start_datetime,
     Type |-> Str("TimeSet")]

\* A variant of set_time that keeps the offset.
set_time_keep_offset(w, t, datasets) ==
    append_event([w EXCEPT !.start_datetime = now(t), !.start_time_counter = perf_counter(t)],
                 time_set_event([w EXCEPT !.start_datetime = now(t)]), datasets)

\* set_time()
set_time(w, t, datasets) ==
    append_event([w EXCEPT !.start_datetime = now(t), !.start_time_counter = perf_counter(t),
                           !.start_time_offset = Num(0)],
                 time_set_event([w EXCEPT !.start_datetime = now(t)]), datasets)

\* The marker event of resume_time, logged at now_datatime.
resume_time_event(w, now_datatime) ==
    [Time |-> now_datatime, DeltaTime |-> w.start_time_offset, StartTime |-> w.start_datetime,
     Type |-> Str("ResumeTime")]

\* resume_time after "self.start_datetime = ...fromtimestamp(start_event[Time])".
resume_time_offset(w, now_datatime, datasets) ==
    append_event(
        [w EXCEPT !.start_time_offset = Num(number(now_datatime) - number(w.start_datetime))],
        resume_time_event(
            [w EXCEPT !.start_time_offset = Num(number(now_datatime) - number(w.start_datetime))],
            now_datatime),
        datasets)

\* resume_time after "start_event = self.hierarchy.get_item(index, name)".
resume_time_start(w, now_datatime, datasets) ==
    IF w.exc # "" THEN w
    ELSE resume_time_offset([w EXCEPT !.start_datetime = Datetime(number(w.item["Time"]))],
                            now_datatime, datasets)

\* resume_time(name, index); the defaults are "TimeSet" and -1.
resume_time(w, t, name, index, datasets) ==
    resume_time_start(hierarchy_get_item([w EXCEPT !.start_time_counter = perf_counter(t)],
                                         index, name),
                      now(t), datasets)

EVENT_DTYPE == << <<"Time", "num">>, <<"DeltaTime", "num">>, <<"StartTime", "num">>,
                  <<TYPE_NAME, "str">>, <<LINK_NAME, "str">> >>

\* HDF5eventLogger.__init__: no time base yet; no time has passed.
InitTime ==
    /\ start_datetime = None
    /\ start_time_counter = None
    /\ start_time_offset = None
    /\ clock = 0

\* No HDF5dataset object has been constructed.
InitHandles ==
    /\ handles = <<>>
    /\ cached = 0
    /\ scopes = <<>>

\* VersionRegistry(): no versioned class is defined yet.
InitVersions == registry = <<>>

\* HDF5eventLogger.construct names the parent array "Events".
InitParent == parent_name = "Events"

\* The hierarchy of a logger constructed over a new file: the parent array
\* "Events" is empty and no child array is registered.
InitHierarchy ==
    /\ dataset_links = [n \in DatasetNames |->
                          IF n = "Events" THEN ReferenceDataset(EVENT_DTYPE, <<>>, LINK_NAME)
                          ELSE NoDataset]
    /\ child_datasets = {}
    /\ uuids = 0
    /\ written = {}
    /\ log = <<>>

---------------------------------------------------------------------------
(* Actions of the container *)

IsOpen == is_open(World)

\* The iteration order of a set matters only to a call that opens the file
\* and then deletes cached attributes one by one until one is missing.
OrdersOf ==
    IF ~IsOpen /\ (Cardinality(_datasets) > 1 \/ \E k \in _file_attrs : cache[k] = NoAttr)
    THEN Orders
    ELSE {CHOOSE o \in Orders : TRUE}

\* Names given to attributes by the callers.
AttrKeys == {"Version", "X"}

\* Names given to arrays.
ArrayNames == {"X"}

True == Value("True")

\* The state after a call that ended in world w.
Apply(w, op, key) ==
    /\ h5_fobj' = w.h5_fobj
    /\ fobj_valid' = w.fobj_valid
    /\ file_exists' = w.file_exists
    /\ attrs' = w.attrs
    /\ h5_items' = w.h5_items
    /\ _file_attrs' = w._file_attrs
    /\ _datasets' = w._datasets
    /\ cache' = w.cache
    /\ is_updating' = w.is_updating
    /\ rejections' = (IF op = "__init__" THEN {} ELSE rejections)
                     \cup (IF w.rejected # {} /\ op \in {"set_file_attribute", "add_file_attributes"}
                           THEN {"attr"} ELSE {})
                     \cup (IF w.rejected # {} /\ op \in {"set_dataset", "add_file_datasets"}
                           THEN {"dataset"} ELSE {})
    /\ call' = [op |-> op, was_open |-> IsOpen, exc |-> w.exc,
                warns |-> w.warns, rejected |-> w.rejected, ret |-> w.ret]
    /\ UNCHANGED <<hierarchyState, timeState, handleState, versionState, parentState>>

\* Inputs.
SetValues == {"v1", Unsupported}
AttrItems ==
    {<< <<k, v>> >> : k \in AttrKeys, v \in SetValues}
    \cup {<< <<"Version", v[1]>>, <<"X", v[2]>> >> : v \in SetValues \X SetValues}
DatasetItems ==
    {<< <<k, a>> >> : k \in ArrayNames, a \in BOOLEAN}

\* HDF5container(path, update): a new object over the same path; the old
\* object's __del__ closes its file.
NewContainer ==
    \E u \in BOOLEAN :
        Apply([World EXCEPT !.h5_fobj = 0, !.fobj_valid = FALSE, !._file_attrs = {},
                            !._datasets = {}, !.cache = [k \in Names |-> NoAttr],
                            !.is_updating = u],
              "__init__", "")

Construct ==
    \E open_ \in BOOLEAN, ord \in OrdersOf : Apply(construct(World, open_, ord), "construct", "")

Open ==
    \E validate \in BOOLEAN, ord \in OrdersOf : Apply(open(World, validate, ord), "open", "")

Close == Apply(Return(close(World), True), "close", "")

Enter ==
    \E ord \in OrdersOf : Apply(enter(World, ord), "__enter__", "")

Exit == Apply(Return(exit(World), True), "__exit__", "")

GetFileAttribute ==
    \E k \in Names, ord \in OrdersOf :
        Apply(get_file_attribute(World, k, ord), "get_file_attribute", k)

GetFileAttributes ==
    \E ord \in OrdersOf : Apply(get_file_attributes(World, ord), "get_file_attributes", "")

SetFileAttribute ==
    \E k \in AttrKeys, v \in SetValues, ord \in OrdersOf :
        Apply(set_file_attribute(World, k, v, ord), "set_file_attribute", k)

AddFileAttributes ==
    \E items \in AttrItems, ord \in OrdersOf :
        Apply(add_file_attributes(World, items, ord), "add_file_attributes", "")

GetDataset ==
    \E k \in ArrayNames, ord \in OrdersOf : Apply(get_dataset(World, k, ord), "get_dataset", k)

SetDataset ==
    \E k \in ArrayNames, data \in {"None"}, accept \in BOOLEAN, ord \in OrdersOf :
        Apply(set_dataset(World, k, data, accept, ord), "set_dataset", k)

AddFileDatasets ==
    \E items \in DatasetItems, ord \in OrdersOf :
        Apply(add_file_datasets(World, items, ord), "add_file_datasets", "")

NoCall == [op |-> "", was_open |-> FALSE, exc |-> "", warns |-> {},
           rejected |-> {}, ret |-> NoAttr]

\* A container object before construct(), its file not yet created.
InitContainer ==
    /\ h5_fobj = 0
    /\ fobj_valid = FALSE
    /\ file_exists = FALSE
    /\ attrs = [k \in Names |-> Absent]
    /\ h5_items = [k \in Names |-> NoArray]
    /\ _file_attrs = {}
    /\ _datasets = {}
    /\ cache = [k \in Names |-> NoAttr]
    /\ rejections = {}

Init ==
    /\ InitContainer
    /\ InitTime
    /\ InitHandles
    /\ InitVersions
    /\ InitParent
    /\ is_updating \in BOOLEAN
    /\ InitHierarchy
    /\ call = NoCall

Next ==
    \/ NewContainer
    \/ Construct
    \/ Open
    \/ Close
    \/ Enter
    \/ Exit
    \/ GetFileAttribute
    \/ GetFileAttributes
    \/ SetFileAttribute
    \/ AddFileAttributes
    \/ GetDataset
    \/ SetDataset
    \/ AddFileDatasets

Spec == Init /\ [][Next]_vars

---------------------------------------------------------------------------
(* Claims about the container *)

Accessors == {"get_file_attribute", "get_file_attributes", "set_file_attribute",
              "add_file_attributes", "get_dataset", "set_dataset", "add_file_datasets"}
OpenFailures == {"AttributeError:clear_attributes", "AttributeError:clear_datasets"}
\* C1: after every attribute/array accessor the container is open exactly
\* when it was open before the call.
C1_ScopedAccess == call.op \in Accessors => (IsOpen = call.was_open)

\* C2: open() on a container that is already open returns at once: the File
\* object is kept, nothing is validated or reported, and the caches and the
\* file are untouched.
C2_OpenIdempotent ==
    [][(IsOpen /\ call'.op = "open")
        => (UNCHANGED containerState /\ call'.warns = {} /\ call'.exc = "")]_vars

C2_Witness ==
    /\ call.op = "open"
    /\ call.was_open
    /\ cache["X"].kind = "HDF5dataset"
    /\ cache["Version"].kind = "attr"

\* C3: one close() closes the container whatever opened it and reports it
\* closed, close() on a closed container changes nothing, and the container
\* becomes open only by an open() that succeeds.
C3_CloseIdempotent ==
    [][/\ call'.op \in {"close", "__exit__"}
            => (~IsOpen' /\ call'.ret = True /\ (~IsOpen => UNCHANGED containerState))
       /\ (~IsOpen /\ IsOpen') => call'.exc = ""]_vars

\* The attribute value cached for a name ("" when "_" + name holds none).
CachedValue(c, k) == IF c[k].kind = "attr" THEN c[k].v ELSE ""

\* C4 as claimed: a rejected attribute write is reported, raises nothing,
\* and leaves the cached and the stored value of the key as they were
\* before the call.
C4_RejectedWriteKeepsState ==
    [][(call'.op \in {"set_file_attribute", "add_file_attributes"} /\ call'.rejected # {})
        => /\ "Could not set attribute" \in call'.warns
           /\ call'.exc = ""
           /\ \A k \in call'.rejected : attrs'[k] = attrs[k] /\ CachedValue(cache', k) = CachedValue(cache, k)]_vars

\* C4 as amended: the stored value is as before the call; the cached value
\* is as before the call when the container was open, and otherwise what
\* the call's own open() reloaded.  The rejected value is never cached.
C4_RejectedWriteKeepsLoadedState ==
    [][(call'.op \in {"set_file_attribute", "add_file_attributes"} /\ call'.rejected # {})
        => /\ "Could not set attribute" \in call'.warns
           /\ call'.exc = ""
           /\ \A k \in call'.rejected :
                /\ attrs'[k] = attrs[k]
                /\ IsOpen => CachedValue(cache', k) = CachedValue(cache, k)
                /\ ~IsOpen => \E ord \in Orders :
                                CachedValue(cache', k) = CachedValue(open(World, FALSE, ord).cache, k)
                /\ CachedValue(cache', k) # Unsupported]_vars

C4_Witness ==
    /\ call.op = "add_file_attributes"
    /\ call.rejected = {"X"}
    /\ attrs["Version"] = "v1"
    /\ cache["X"] = NoAttr

\* C5: after attribute writes were rejected (and nothing else was), every
\* later call gets through open() as it does when no write was rejected.
C5_RejectedWriteHarmless == rejections = {"attr"} => call.exc \notin OpenFailures

\* The baseline of C5: while no write was rejected, open() raises nothing.
OpenSucceedsWithoutRejection == rejections = {} => call.exc \notin OpenFailures

---------------------------------------------------------------------------
(* The reference index of one array: calls on the HDF5referenceDataset of   *)
(* the array "Events"                                                      *)

MaxRows == 3

\* The ids callers pass, beside the ones uuid4 has produced.
CallerIds == {UUID("u1"), UUID("u2")}
GeneratedIds == {UUID("g" \o ToString(n)) : n \in 1..uuids}

\* The strings held by the reference field of an array.
Stored(ds) == {ds.rows[i][ds.reference_field] : i \in DOMAIN ds.rows} \ {Zero("str")}

\* The state after a call on the reference index that ended in w.
ApplyReference(w, op, id_, index) ==
    /\ dataset_links' = w.dataset_links
    /\ uuids' = w.uuids
    /\ written' = written \cup Stored(w.dataset_links["Events"])
    /\ call' = [op |-> op, id |-> id_, index |-> index, exc |-> w.exc, warns |-> w.warns,
                ret_index |-> w.index, ret_id |-> w.id]
    /\ UNCHANGED <<containerState, timeState, handleState, versionState, parentState, rejections, child_datasets, log>>

NewReference ==
    /\ Len(dataset_links["Events"].rows) < MaxRows
    /\ \E id_ \in CallerIds \cup {None} :
           ApplyReference(new_reference(Links, "Events", id_), "new_reference", id_, 0)

SetReference ==
    \E index \in DOMAIN dataset_links["Events"].rows, id_ \in CallerIds :
        ApplyReference(set_reference(Links, "Events", index, id_), "set_reference", id_, index)

GetIndex ==
    \E id_ \in CallerIds \cup GeneratedIds :
        ApplyReference(get_index(Links, "Events", id_), "get_index", id_, 0)

GetId ==
    \E index \in DOMAIN dataset_links["Events"].rows :
        ApplyReference(get_id(Links, "Events", index), "get_id", None, index)

\* A new HDF5referenceDataset over the same array (the file is reopened):
\* its index starts empty.
NewReferenceDataset ==
    ApplyReference([Links EXCEPT !.dataset_links["Events"].references = {}], "__init__", None, 0)

NoReferenceCall == [op |-> "", id |-> None, index |-> 0, exc |-> "", warns |-> {},
                    ret_index |-> 0, ret_id |-> None]

InitRef ==
    /\ InitContainer
    /\ InitTime
    /\ InitHandles
    /\ InitVersions
    /\ InitParent
    /\ is_updating = TRUE
    /\ InitHierarchy
    /\ call = NoReferenceCall

NextRef ==
    \/ NewReference
    \/ SetReference
    \/ GetIndex
    \/ GetId
    \/ NewReferenceDataset

SpecRef == InitRef /\ [][NextRef]_vars

\* C9: get_index for an id that was never written to the array reports the
\* miss and returns to the caller without raising.
C9_UnresolvedReferenceReturns ==
    (call.op = "get_index" /\ str(call.id) \notin written)
        => (call.exc = "" /\ call.warns # {})

\* C10: get_index for an id that two rows of the array hold raises, whether
\* or not the id is in the in-memory index.
C10_AmbiguousReferenceRaises ==
    (call.op = "get_index" /\ Cardinality(where(Links, "Events", call.id)) > 1)
        => call.exc # ""

\* The part of C10 the code keeps: the lookup raises when the duplicated id
\* is not in the in-memory index.
AmbiguousReferenceRaisesWhenCold ==
    [][(call'.op = "get_index" /\ Cardinality(where(Links, "Events", call'.id)) > 1
        /\ ~HasKey(dataset_links["Events"].references, call'.id))
        => call'.exc = "KeyError"]_vars

\* The rows of the array "Events" and the index over them.
RefRows == dataset_links["Events"].rows
RefField == dataset_links["Events"].reference_field

\* C11: no two rows of the array hold the same ReferenceID, whatever ids
\* the callers of new_reference and set_reference pass.
C11_ReferenceIdUnique ==
    \A i, j \in DOMAIN RefRows :
        (i # j /\ RefRows[i][RefField] # Zero("str")) => RefRows[i][RefField] # RefRows[j][RefField]

\* An id uuid4 generated is held by at most one row when callers pass only
\* ids of their own.
GeneratedIdUnique == \A id_ \in GeneratedIds : Cardinality(where(Links, "Events", id_)) <= 1

\* C12: new_reference without an index adds one row at the end of the
\* array, writes the caller's id (a new uuid4 when the caller passes none)
\* into that row's reference field, maps the id to the row in the index,
\* returns the id, and leaves the rows that existed as they were.
C12_NewReferenceAppends ==
    [][call'.op = "new_reference" =>
          /\ call'.exc = ""
          /\ Len(RefRows') = Len(RefRows) + 1
          /\ \A i \in DOMAIN RefRows : RefRows'[i] = RefRows[i]
          /\ RefRows'[Len(RefRows')][RefField] = str(call'.ret_id)
          /\ IF call'.id = None
             THEN /\ call'.ret_id \notin CallerIds \cup GeneratedIds
                  /\ call'.ret_id \in GeneratedIds'
                  /\ str(call'.ret_id) \notin Stored(dataset_links["Events"])
             ELSE call'.ret_id = call'.id
          /\ HasKey(dataset_links'["Events"].references, call'.ret_id)
          /\ Lookup(dataset_links'["Events"].references, call'.ret_id) = Len(RefRows')
          /\ LookupInverse(dataset_links'["Events"].references, Len(RefRows')) = call'.ret_id
      ]_vars

\* A generated id is appended after a row that holds a caller's id.
C12_Witness ==
    /\ call.op = "new_reference"
    /\ call.id = None
    /\ call.exc = ""
    /\ Len(RefRows) = 3
    /\ RefRows[1][RefField] = Str("u1")
    /\ RefRows[3][RefField] = str(call.ret_id)

---------------------------------------------------------------------------
(* The event logger: append and the two reads *)

MaxEvents == 3

\* The Types of the events, and the shapes of a record: the type-specific
\* fields it carries and whether its times are datetimes or timestamps.
Types == {"Lever", "Tone"}
Shapes == {<<{}, "num">>, <<{"value"}, "num">>, <<{"value"}, "datetime">>,
           <<{"value", "extra"}, "num">>}

\* The n-th record appended: its Time is n, read from the clock.
EventRecord(type, n, kind, fields) ==
    [f \in EVENT_FIELDS \cup fields |->
        CASE f = "Time" -> IF kind = "datetime" THEN Datetime(n) ELSE Num(n)
          [] f = "DeltaTime" -> Num(n)
          [] f = "StartTime" -> IF kind = "datetime" THEN Datetime(0) ELSE Num(0)
          [] f = "Type" -> Str(type)
          [] f = "value" -> Num(n)
          [] OTHER -> Str("x")]

\* The orders in which a set of names is iterated.
Orderings(S) ==
    {o \in [1..Cardinality(S) -> S] : \A i, j \in 1..Cardinality(S) : i # j => o[i] # o[j]}

\* The state after a call on the logger that ended in w.
ApplyLogger(w, op, name, index, events) ==
    /\ dataset_links' = w.dataset_links
    /\ child_datasets' = w.child_datasets
    /\ uuids' = w.uuids
    /\ log' = log \o [i \in DOMAIN events |->
                        [event |-> events[i], exc |-> w.exc,
                         row |-> Len(w.dataset_links["Events"].rows)]]
    /\ call' = [op |-> op, name |-> name, index |-> index, exc |-> w.exc, warns |-> w.warns,
                item |-> w.item, items |-> w.items]
    /\ UNCHANGED <<containerState, timeState, handleState, versionState, parentState, rejections, written>>

AppendRecord ==
    /\ Len(log) < MaxEvents
    /\ \E type \in Types, shape \in Shapes :
         \E datasets \in Orderings({"Events", type}) :
            ApplyLogger(append_event(Links, EventRecord(type, Len(log) + 1, shape[2], shape[1]),
                                     datasets),
                        "append", type, 0,
                        <<EventRecord(type, Len(log) + 1, shape[2], shape[1])>>)

GetItem ==
    \E index \in DOMAIN dataset_links["Events"].rows :
        ApplyLogger(get_items(Links, index), "get_item", "", index, <<>>)

GetEventType ==
    \E name \in DatasetNames :
        ApplyLogger(get_event_type(Links, name), "get_event_type", name, 0, <<>>)

NoLoggerCall == [op |-> "", name |-> "", index |-> 0, exc |-> "", warns |-> {},
                 item |-> <<>>, items |-> <<>>]

InitEvents ==
    /\ InitContainer
    /\ InitTime
    /\ InitHandles
    /\ InitVersions
    /\ InitParent
    /\ is_updating = TRUE
    /\ InitHierarchy
    /\ call = NoLoggerCall

NextEvents ==
    \/ AppendRecord
    \/ GetItem
    \/ GetEventType

SpecEvents == InitEvents /\ [][NextEvents]_vars

\* An event as the arrays store it, without its link id.
AsStored(event) == [f \in DOMAIN event \ {LINK_NAME} |-> item_to_np(event[f])]

ParentRows == dataset_links["Events"].rows
TypeOf(i) == ParentRows[i][TYPE_NAME].v

\* C6: get_item at the parent row of an appended event returns a record
\* equal to the event on every field but LinkID (a time is compared as the
\* timestamp the array stores).
C6_RoundTrip ==
    (call.op = "get_item" /\ log[call.index].exc = "")
        => (call.exc = "" /\ call.item = AsStored(log[call.index].event))

\* The part of C6 the code keeps: the record returned has the parent's
\* fields and the fields of the child array's schema, each as appended.
RoundTripOnSchema ==
    (call.op = "get_item" /\ log[call.index].exc = "")
        => /\ call.exc = ""
           /\ DOMAIN call.item = (EVENT_FIELDS \cup FieldsOf(dataset_links[TypeOf(call.index)].descr))
                                    \ {LINK_NAME}
           /\ \A f \in DOMAIN call.item : call.item[f] = AsStored(log[call.index].event)[f]

\* The rows of an array that hold a link id.
Linked(name, link) ==
    {j \in DOMAIN dataset_links[name].rows : dataset_links[name].rows[j][LINK_NAME] = link}

\* The row of parent row i's Type's child array that holds its link id.
ChildRow(i) ==
    dataset_links[TypeOf(i)].rows[CHOOSE j \in Linked(TypeOf(i), ParentRows[i][LINK_NAME]) : TRUE]

\* C7: after N appends with K Types the parent has N rows, there is one
\* child array per Type with as many rows as events of the Type, and every
\* parent row's LinkID is held by exactly one row of its Type's child array,
\* by no row of another child array and by no other parent row; that child
\* row holds the event's values of the child array's fields.
C7_LinkIntegrity ==
    /\ Len(ParentRows) = Len(log)
    /\ child_datasets = {log[i].event[TYPE_NAME].v : i \in DOMAIN log}
    /\ \A T \in DatasetNames \ {"Events"} : dataset_links[T].exists = (T \in child_datasets)
    /\ \A T \in child_datasets :
          Len(dataset_links[T].rows) = Cardinality({i \in DOMAIN log : log[i].event[TYPE_NAME].v = T})
    /\ \A i \in DOMAIN ParentRows :
          /\ ParentRows[i][TYPE_NAME] = log[i].event[TYPE_NAME]
          /\ Linked("Events", ParentRows[i][LINK_NAME]) = {i}
          /\ \A T \in child_datasets :
                Cardinality(Linked(T, ParentRows[i][LINK_NAME])) = IF T = TypeOf(i) THEN 1 ELSE 0
    /\ \A T \in child_datasets : \A j \in DOMAIN dataset_links[T].rows :
          Cardinality(Linked("Events", dataset_links[T].rows[j][LINK_NAME])) = 1
    /\ \A i \in DOMAIN ParentRows :
          log[i].exc = "" =>
             \A f \in FieldsOf(dataset_links[TypeOf(i)].descr) \ {LINK_NAME} :
                ChildRow(i)[f] = item_to_np(log[i].event[f])

C7_Witness ==
    /\ Len(log) = 3
    /\ child_datasets = {"Lever", "Tone"}
    /\ Len(dataset_links["Lever"].rows) = 2
    /\ \A i \in DOMAIN log : log[i].exc = ""

\* The merged record of parent row i: its fields and those of the row of its
\* Type's child array that holds its link id, without the link id.
Merged(i) ==
    Restrict(merge_dict(ParentRows[i], ChildRow(i)),
             (EVENT_FIELDS \cup FieldsOf(dataset_links[TypeOf(i)].descr)) \ {LINK_NAME})

\* The parent rows of a Type, in the order of the array.
RowsOf(T) == SelectSeq([i \in DOMAIN ParentRows |-> i], LAMBDA i : TypeOf(i) = T)

\* C8: the parent rows are in the order of the append calls, and
\* get_dataset(T) for a child Type T returns the merged records of the
\* parent rows of Type T, one per row and in that order.
C8_OrderedRetrieval ==
    /\ \A i \in DOMAIN ParentRows :
          /\ ParentRows[i]["Time"] = item_to_np(log[i].event["Time"])
          /\ ParentRows[i][TYPE_NAME] = log[i].event[TYPE_NAME]
    /\ (call.op = "get_event_type" /\ call.name \in child_datasets)
          => /\ call.exc = ""
             /\ call.items = [k \in DOMAIN RowsOf(call.name) |-> Merged(RowsOf(call.name)[k])]

C8_Witness ==
    /\ call.op = "get_event_type"
    /\ call.name = "Lever"
    /\ Len(call.items) = 2
    /\ Len(log) = 3
    /\ log[1].event[TYPE_NAME] = Str("Lever")
    /\ log[2].event[TYPE_NAME] = Str("Lever")
    /\ log[3].event[TYPE_NAME] = Str("Tone")
    /\ call.items[1]["Time"] = Num(1)
    /\ call.items[2]["Time"] = Num(2)

\* The schema append_event infers for the child array of an event: its
\* fields other than the parent's, numbers for numbers and times and
\* strings for the rest, and the link id.
InferredSchema(event) ==
    {<<f, IF event[f].t \in {"num", "datetime"} THEN "num" ELSE "str">> :
        f \in DOMAIN event \ (EVENT_FIELDS \cup {LINK_NAME})}
    \cup {<<LINK_NAME, "str">>}

\* The fields of a dtype with their types.
SchemaOf(descr) == {descr[i] : i \in DOMAIN descr}

\* C24: an append of an event whose Type has no child array registers one
\* child array, named after the Type, with the schema inferred from the
\* event; an append of an event of a known Type registers none; and no call
\* unregisters a child array or changes its schema.
C24_ChildOnDemand ==
    [][/\ call'.op = "append" =>
            /\ call'.name \notin child_datasets =>
                  /\ child_datasets' = child_datasets \cup {call'.name}
                  /\ dataset_links'[call'.name].exists
                  /\ SchemaOf(dataset_links'[call'.name].descr)
                        = InferredSchema(log'[Len(log')].event)
            /\ call'.name \in child_datasets => child_datasets' = child_datasets
       /\ child_datasets \subseteq child_datasets'
       /\ \A n \in child_datasets :
            /\ dataset_links'[n].exists
            /\ dataset_links'[n].descr = dataset_links[n].descr
            /\ Len(dataset_links'[n].rows) >= Len(dataset_links[n].rows)]_vars

\* A second Lever event with another field set is appended to the array the
\* first one created, after a Tone event created its own.
C24_Witness ==
    /\ call.op = "append"
    /\ call.name = "Lever"
    /\ call.exc = ""
    /\ child_datasets = {"Lever", "Tone"}
    /\ Len(dataset_links["Lever"].rows) = 2
    /\ SchemaOf(dataset_links["Lever"].descr) = {<<"value", "num">>, <<LINK_NAME, "str">>}
    /\ SchemaOf(dataset_links["Tone"].descr) = {<<LINK_NAME, "str">>}
    /\ DOMAIN log[Len(log)].event = EVENT_FIELDS \cup {"value", "extra"}

\* C25: an append of an event of a known Type that carries a field the
\* Type's child array has no column for is reported to the caller, by an
\* exception or a warning.
C25_ExtraFieldReported ==
    [][(/\ call'.op = "append"
        /\ call'.name \in child_datasets
        /\ ~(DOMAIN log'[Len(log')].event
                \subseteq EVENT_FIELDS \cup FieldsOf(dataset_links[call'.name].descr)))
        => (call'.exc # "" \/ call'.warns # {})]_vars

---------------------------------------------------------------------------
(* The linked datasets: new_link and append_linked_data on the arrays     *)
(* "Events" and "Lever", and on "Tone" once it is registered              *)

MaxLinks == 2
MaxLinkRows == 2

LEVER_DTYPE == << <<"value", "num">>, <<LINK_NAME, "str">> >>
TONE_DTYPE == << <<LINK_NAME, "str">> >>

\* The locations callers pass to new_link: none, one array, several, and
\* with "Tone" before or after another array.
Targets ==
    {<<>>, <<"Events">>, <<"Lever">>, <<"Events", "Lever">>, <<"Events", "Tone">>,
     <<"Tone", "Events">>, <<"Events", "Lever", "Tone">>}
Range(seq) == {seq[i] : i \in DOMAIN seq}

\* The state after a call on the linked datasets that ended in w.
ApplyLinks(w, op, targets, id_) ==
    /\ dataset_links' = w.dataset_links
    /\ uuids' = w.uuids
    /\ call' = [op |-> op, targets |-> targets, id |-> id_, exc |-> w.exc, warns |-> w.warns,
                ret_id |-> w.id]
    /\ UNCHANGED <<containerState, timeState, handleState, versionState, parentState, rejections, child_datasets, written, log>>

\* No call grows an array beyond MaxLinkRows or draws more than MaxLinks ids.
Room(targets) ==
    /\ uuids < MaxLinks
    /\ \A n \in DatasetNames :
          (n \in Range(targets) \/ targets = <<>>) => Len(dataset_links[n].rows) < MaxLinkRows

NewLink ==
    \E targets \in Targets, id_ \in {None, UUID("u1")} :
        /\ Room(targets)
        /\ ApplyLinks(new_link_locations(Links, targets, id_), "new_link", targets, id_)

\* append_linked_data("Events", item, children): the item is a Lever event
\* with or without the field of the array "Lever".
AppendLinkedData ==
    \E children \in Orderings({"Lever"}) \cup Orderings({"Tone"}) \cup Orderings({"Lever", "Tone"}),
       fields \in {{}, {"value"}} :
        \E datasets \in Orderings({"Events"} \cup Range(children)) :
            /\ Room(datasets)
            /\ ApplyLinks(append_linked_data([Links EXCEPT !.item =
                                                 EventRecord("Lever", 1, "num", fields)],
                                             "Events", children, datasets),
                          "append_linked_data", datasets, None)

\* add_datset("Tone", dataset, link_name)
AddDataset ==
    /\ ~dataset_links["Tone"].exists
    /\ ApplyLinks([Links EXCEPT !.dataset_links["Tone"] =
                                    ReferenceDataset(TONE_DTYPE, <<>>, LINK_NAME)],
                  "add_datset", <<"Tone">>, None)

NoLinksCall == [op |-> "", targets |-> <<>>, id |-> None, exc |-> "", warns |-> {},
                ret_id |-> None]

InitLinks ==
    /\ InitContainer
    /\ InitTime
    /\ InitHandles
    /\ InitVersions
    /\ InitParent
    /\ is_updating = TRUE
    /\ dataset_links = [n \in DatasetNames |->
                          CASE n = "Events" -> ReferenceDataset(EVENT_DTYPE, <<>>, LINK_NAME)
                            [] n = "Lever" -> ReferenceDataset(LEVER_DTYPE, <<>>, LINK_NAME)
                            [] OTHER -> NoDataset]
    /\ child_datasets = {}
    /\ uuids = 0
    /\ written = {}
    /\ log = <<>>
    /\ call = NoLinksCall

NextLinks ==
    \/ NewLink
    \/ AppendLinkedData
    \/ AddDataset

SpecLinks == InitLinks /\ [][NextLinks]_vars

RegisteredNames == {n \in DatasetNames : dataset_links[n].exists}

\* The arrays a call targets: every registered array when it names none.
Targeted == IF call'.targets = <<>> THEN RegisteredNames ELSE Range(call'.targets)

\* The arrays that have a row more after the call than before it.
Grown == {n \in DatasetNames : Len(dataset_links'[n].rows) > Len(dataset_links[n].rows)}

C14_PartialLinkRemains ==
    [][(call'.op \in {"new_link", "append_linked_data"}
        /\ Grown # {} /\ Grown # Targeted) =>
          /\ call'.exc # ""
          /\ \A n \in DatasetNames :
                \A i \in DOMAIN dataset_links[n].rows :
                    dataset_links'[n].rows[i] = dataset_links[n].rows[i]
          /\ \A n \in Grown :
                /\ Len(dataset_links'[n].rows) = Len(dataset_links[n].rows) + 1
                /\ dataset_links'[n].rows[Len(dataset_links'[n].rows)][LINK_NAME] = str(call'.ret_id)
      ]_vars

\* append_linked_data raised for the child "Tone", which is not registered,
\* after the row of "Events" was created.
C14_Witness ==
    /\ call.op = "append_linked_data"
    /\ call.targets = <<"Events", "Tone">>
    /\ call.exc = "KeyError"
    /\ ~dataset_links["Tone"].exists
    /\ Len(dataset_links["Events"].rows) = 1
    /\ dataset_links["Events"].rows[1][LINK_NAME] = str(call.ret_id)

---------------------------------------------------------------------------
(* The event logger: find_event and find_event_range over streams whose   *)
(* Time column is sorted                                                   *)

\* The query times, from before the first row's Time to after the last's.
Queries == 0..(2 * MaxStream)
Modes == {"bisect", "left", "right"}
Streams == {"Events", "Lever"}

\* The state after a call on the logger that ended in w.
ApplyFind(w, op, time_, end, type_, bisect_, events) ==
    /\ dataset_links' = w.dataset_links
    /\ child_datasets' = w.child_datasets
    /\ uuids' = w.uuids
    /\ log' = log \o [i \in DOMAIN events |->
                        [event |-> events[i], exc |-> w.exc,
                         row |-> Len(w.dataset_links["Events"].rows)]]
    /\ call' = [op |-> op, time |-> time_, end |-> end, type |-> type_, mode |-> bisect_,
                exc |-> w.exc, warns |-> w.warns, position |-> w.position, first |-> w.first,
                item |-> w.item, items |-> w.items]
    /\ UNCHANGED <<containerState, timeState, handleState, versionState, parentState, rejections, written>>

\* The Time of the next event: the clock stands or moves on by two.
NextTimes == IF log = <<>> THEN {1} ELSE {number(log[Len(log)].event["Time"]) + d : d \in {0, 2}}

AppendTimed ==
    /\ Len(log) < MaxStream
    /\ \E type \in Types, time_ \in NextTimes :
         \E datasets \in Orderings({"Events", type}) :
            ApplyFind(append_event(Links, EventRecord(type, time_, "num", {"value"}), datasets),
                      "append", None, None, type, "",
                      <<EventRecord(type, time_, "num", {"value"})>>)

FindEvent ==
    \E q \in Queries, type_ \in Streams, bisect_ \in Modes :
        \E time_ \in {Num(q), Datetime(q)} :
            ApplyFind(find_event(Links, time_, type_, bisect_), "find_event",
                      time_, None, type_, bisect_, <<>>)

FindEventRange ==
    \E start \in Queries, end \in Queries, type_ \in Streams :
        /\ start <= end
        /\ ApplyFind(find_event_range(Links, Num(start), Num(end), type_), "find_event_range",
                     Num(start), Num(end), type_, "", <<>>)

NoFindCall == [op |-> "", time |-> None, end |-> None, type |-> "", mode |-> "", exc |-> "",
               warns |-> {}, position |-> 0, first |-> 0, item |-> <<>>, items |-> <<>>]

InitFind ==
    /\ InitContainer
    /\ InitTime
    /\ InitHandles
    /\ InitVersions
    /\ InitParent
    /\ is_updating = TRUE
    /\ InitHierarchy
    /\ call = NoFindCall

NextFind ==
    \/ AppendTimed
    \/ FindEvent
    \/ FindEventRange

SpecFind == InitFind /\ [][NextFind]_vars

\* The parent rows of a stream, in the order of the array, and their Times.
StreamRows(T) == IF T = "Events" THEN [i \in DOMAIN ParentRows |-> i] ELSE RowsOf(T)
StreamTimes(T) == [k \in DOMAIN StreamRows(T) |-> number(ParentRows[StreamRows(T)[k]]["Time"])]

\* A call of op on a stream that exists and has a row.
Searched(op) ==
    /\ call.op = op
    /\ call.type \in child_datasets \cup {"Events"}
    /\ StreamTimes(call.type) # <<>>

\* C15: find_event_range(start, end, type) with start <= end on a sorted
\* stream returns the index range first..last such that the rows in it are
\* exactly the rows whose Time is within [start, end].
C15_RangeExact ==
    Searched("find_event_range") =>
        /\ call.exc = ""
        /\ \A k \in DOMAIN StreamTimes(call.type) :
              (call.first <= k - 1 /\ k - 1 <= call.position)
                  <=> (number(call.time) <= StreamTimes(call.type)[k]
                       /\ StreamTimes(call.type)[k] <= number(call.end))

\* What the code keeps of C15: the range is exact when a row lies at or
\* after start, a row lies at or before end, and at most one row has the
\* Time end.
RangeExactInside ==
    (/\ Searched("find_event_range")
     /\ \E k \in DOMAIN StreamTimes(call.type) : StreamTimes(call.type)[k] >= number(call.time)
     /\ \E k \in DOMAIN StreamTimes(call.type) : StreamTimes(call.type)[k] <= number(call.end)
     /\ Cardinality({k \in DOMAIN StreamTimes(call.type) :
                        StreamTimes(call.type)[k] = number(call.end)}) <= 1)
        => /\ call.exc = ""
           /\ \A k \in DOMAIN StreamTimes(call.type) :
                 (call.first <= k - 1 /\ k - 1 <= call.position)
                     <=> (number(call.time) <= StreamTimes(call.type)[k]
                          /\ StreamTimes(call.type)[k] <= number(call.end))

\* The distance of the k-th row of the searched stream from the query time.
Distance(k) == Abs(StreamTimes(call.type)[k] - number(call.time))

\* C16: find_event(t, type, "bisect") for a number t on a non-empty sorted
\* stream, the parent's or a child Type's, returns the index and the record
\* of a row whose Time is closest to t, the earlier one when a row before t
\* and a row after t are equally distant.
C16_BisectClosest ==
    (Searched("find_event") /\ call.mode = "bisect" /\ call.time.t = "num") =>
        /\ call.exc = ""
        /\ call.position + 1 \in DOMAIN StreamTimes(call.type)
        /\ \A k \in DOMAIN StreamTimes(call.type) : Distance(call.position + 1) <= Distance(k)
        /\ \A k \in DOMAIN StreamTimes(call.type) :
              (Distance(k) = Distance(call.position + 1) /\ StreamTimes(call.type)[k] < number(call.time))
                  => StreamTimes(call.type)[call.position + 1] < number(call.time)
        /\ call.item = Merged(StreamRows(call.type)[call.position + 1])

\* What the code keeps of C16: the search of the parent stream.
BisectClosestOnParent ==
    (Searched("find_event") /\ call.mode = "bisect" /\ call.time.t = "num"
     /\ call.type = "Events") =>
        /\ call.exc = ""
        /\ call.position + 1 \in DOMAIN StreamTimes(call.type)
        /\ \A k \in DOMAIN StreamTimes(call.type) : Distance(call.position + 1) <= Distance(k)
        /\ \A k \in DOMAIN StreamTimes(call.type) :
              (Distance(k) = Distance(call.position + 1) /\ StreamTimes(call.type)[k] < number(call.time))
                  => StreamTimes(call.type)[call.position + 1] < number(call.time)
        /\ call.item = Merged(call.position + 1)

\* The insertion point of the query time: the number of rows with an
\* earlier Time.
InsertionPoint ==
    Cardinality({k \in DOMAIN StreamTimes(call.type) : StreamTimes(call.type)[k] < number(call.time)})

\* C17: on a non-empty sorted stream find_event with mode "left" returns the
\* index before the insertion point of the query time and with mode "right"
\* the insertion point, for a number and for a datetime.
C17_LeftRightOfInsertionPoint ==
    (Searched("find_event") /\ call.mode \in {"left", "right"}) =>
        /\ call.exc = ""
        /\ call.position = IF call.mode = "left" THEN InsertionPoint - 1 ELSE InsertionPoint

\* What the code keeps of C17: when the insertion point is a row whose Time
\* is not the query number, "right" returns it and "left" the row before it,
\* if there is one.
LeftRightBetweenRows ==
    (/\ Searched("find_event") /\ call.mode \in {"left", "right"}
     /\ InsertionPoint < Len(StreamTimes(call.type))
     /\ ~(call.time.t = "num" /\ StreamTimes(call.type)[InsertionPoint + 1] = number(call.time))) =>
        /\ call.exc = ""
        /\ call.position = IF call.mode = "left" /\ InsertionPoint > 0
                           THEN InsertionPoint - 1 ELSE InsertionPoint

---------------------------------------------------------------------------
(* The event logger's time base: set_time, resume_time and the events     *)
(* append stamps with create_event                                         *)

MaxMarks == 3

\* The state after a call on the logger that ended in w; the log keeps the
\* time base and the time at which an event was created.
ApplyClock(w, op, name, index, events) ==
    /\ dataset_links' = w.dataset_links
    /\ child_datasets' = w.child_datasets
    /\ uuids' = w.uuids
    /\ start_datetime' = w.start_datetime
    /\ start_time_counter' = w.start_time_counter
    /\ start_time_offset' = w.start_time_offset
    /\ log' = log \o [i \in DOMAIN events |->
                        [event |-> events[i], exc |-> w.exc, op |-> op, clock |-> clock,
                         start_datetime |-> start_datetime,
                         start_time_counter |-> start_time_counter,
                         start_time_offset |-> start_time_offset]]
    /\ call' = [op |-> op, name |-> name, index |-> index, exc |-> w.exc, warns |-> w.warns,
                triggers |-> w.triggers]
    /\ UNCHANGED <<containerState, handleState, versionState, parentState, rejections, written, clock>>

\* One tick of the counter passes.
Pass ==
    /\ clock < MaxTicks
    /\ clock' = clock + 1
    /\ call' = [op |-> "pass", name |-> "", index |-> 0, exc |-> "", warns |-> {}, triggers |-> 0]
    /\ UNCHANGED <<containerState, hierarchyState, handleState, versionState, parentState, rejections,
                   start_datetime, start_time_counter, start_time_offset>>

SetTime ==
    /\ Len(log) < MaxMarks
    /\ \E datasets \in Orderings({"Events", "TimeSet"}) :
          ApplyClock(set_time(Links, clock, datasets), "set_time", "", 0,
                     <<time_set_event([Links EXCEPT !.start_datetime = now(clock)])>>)

\* resume_time() and resume_time("TimeSet", 0)
ResumeTime ==
    /\ Len(log) < MaxMarks
    /\ \E index \in {-1, 0}, datasets \in Orderings({"Events", "ResumeTime"}) :
          ApplyClock(resume_time(Links, clock, "TimeSet", index, datasets),
                     "resume_time", "TimeSet", index,
                     IF hierarchy_get_item(Links, index, "TimeSet").exc # "" THEN <<>>
                     ELSE <<resume_time_event(resume_time(Links, clock, "TimeSet", index, datasets),
                                              now(clock))>>)

\* append("Lever", value=1)
AppendStamped ==
    /\ Len(log) < MaxMarks
    /\ \E datasets \in Orderings({"Events", "Lever"}) :
          ApplyClock(append(Links, clock, "Lever", [value |-> Num(1)], datasets),
                     "append", "Lever", 0,
                     IF create_event(Links, clock, "Lever", [value |-> Num(1)]).exc # "" THEN <<>>
                     ELSE <<create_event(Links, clock, "Lever", [value |-> Num(1)]).item>>)

\* trigger_event(value=1)
TriggerEvent ==
    /\ Len(log) < MaxMarks
    /\ \E fails \in BOOLEAN, datasets \in Orderings({"Events", "Trigger"}) :
          ApplyClock(trigger_event(Links, clock, [value |-> Num(1)], fails, datasets),
                     "trigger_event", "Trigger", 0,
                     IF trigger_event(Links, clock, [value |-> Num(1)], fails, datasets).exc # ""
                     THEN <<>>
                     ELSE <<create_event(Links, clock, "Trigger", [value |-> Num(1)]).item>>)

InitClock ==
    /\ InitContainer
    /\ InitTime
    /\ InitHandles
    /\ InitVersions
    /\ InitParent
    /\ is_updating = TRUE
    /\ InitHierarchy
    /\ call = [op |-> "", name |-> "", index |-> 0, exc |-> "", warns |-> {}, triggers |-> 0]

NextClock ==
    \/ Pass
    \/ SetTime
    \/ ResumeTime
    \/ AppendStamped
    \/ TriggerEvent

SpecClock == InitClock /\ [][NextClock]_vars

\* The last row of the parent array, as numbers.
LastRow == ParentRows[Len(ParentRows)]

\* The parent row of the marker resume_time(name, index) starts from: the
\* most recent one of the name for the index -1.
MarkerRow(name, index) ==
    IF index < 0 THEN RowsOf(name)[Len(RowsOf(name))] ELSE RowsOf(name)[index + 1]

\* The Time and the new anchor a resume_time call leaves.
MarkerTime(name, index) == number(ParentRows[MarkerRow(name, index)]["Time"])

\* C18: resume_time() after set_time() and a delay takes the most recent
\* "TimeSet" marker (or the marker of the given name and index), sets the
\* anchor to the marker's Time and the offset to the wall-clock time since
\* it, and appends one "ResumeTime" event whose DeltaTime is that delay and
\* whose StartTime is the marker's Time; an event stamped afterwards has the
\* Time anchor + offset + elapsed, the elapsed time taken to the microsecond.
C18_ResumeTime ==
    [][/\ (call'.op = "resume_time" /\ RowsOf(call'.name) # <<>>
           /\ call'.index < Len(RowsOf(call'.name))) =>
             /\ call'.exc = ""
             /\ start_datetime' = Datetime(MarkerTime(call'.name, call'.index))
             /\ start_time_offset' = Num(number(now(clock)) - MarkerTime(call'.name, call'.index))
             /\ start_time_counter' = perf_counter(clock)
             /\ Len(ParentRows') = Len(ParentRows) + 1
             /\ \A i \in DOMAIN ParentRows : ParentRows'[i] = ParentRows[i]
             /\ LastRow'[TYPE_NAME] = Str("ResumeTime")
             /\ LastRow'["Time"] = item_to_np(now(clock))
             /\ LastRow'["DeltaTime"] = Num(number(now(clock)) - MarkerTime(call'.name, call'.index))
             /\ LastRow'["StartTime"] = Num(MarkerTime(call'.name, call'.index))
       /\ (call'.op = "append" /\ start_time_offset # None) =>
             /\ call'.exc = ""
             /\ Len(ParentRows') = Len(ParentRows) + 1
             /\ LastRow'["Time"] =
                    Num(number(start_datetime) + number(start_time_offset)
                        + round6(clock - number(start_time_counter)))
      ]_vars

\* resume_time() a microsecond after set_time(), and an event stamped a
\* tick later.
C18_Witness ==
    /\ Len(log) = 3
    /\ log[1].op = "set_time" /\ log[2].op = "resume_time" /\ log[3].op = "append"
    /\ ParentRows[1]["Time"] = Num(0)
    /\ ParentRows[2]["Time"] = Num(1)
    /\ ParentRows[2]["StartTime"] = Num(0)
    /\ ParentRows[2]["DeltaTime"] = Num(1)
    /\ ParentRows[3]["Time"] = Num(1)
    /\ ParentRows[3]["DeltaTime"] = Num(1)
    /\ log[3].clock = 4
    /\ call.op = "append" /\ call.exc = ""

\* C19: set_time() takes the wall clock as the new anchor and the counter as
\* the new snapshot, sets the offset to 0, and appends one event of Type
\* "TimeSet" whose Time and StartTime are the anchor and whose DeltaTime
\* is 0.
C19_SetTime ==
    [][call'.op = "set_time" =>
          /\ call'.exc = ""
          /\ start_datetime' = now(clock)
          /\ start_time_counter' = perf_counter(clock)
          /\ start_time_offset' = Num(0)
          /\ Len(ParentRows') = Len(ParentRows) + 1
          /\ \A i \in DOMAIN ParentRows : ParentRows'[i] = ParentRows[i]
          /\ LastRow'[TYPE_NAME] = Str("TimeSet")
          /\ LastRow'["Time"] = item_to_np(now(clock))
          /\ LastRow'["StartTime"] = item_to_np(now(clock))
          /\ LastRow'["DeltaTime"] = Num(0)
          /\ Len(dataset_links'["TimeSet"].rows) = Len(dataset_links["TimeSet"].rows) + 1
      ]_vars

\* set_time() after a resume_time() that left an offset.
C19_Witness ==
    /\ call.op = "set_time"
    /\ call.exc = ""
    /\ Len(log) = 3
    /\ log[2].op = "resume_time"
    /\ log[3].start_time_offset = Num(1)
    /\ start_time_offset = Num(0)
    /\ start_datetime = Datetime(1)
    /\ LastRow["Time"] = Num(1)

\* The events append stamped with create_event.
Stamped == {i \in DOMAIN log : log[i].op = "append"}

\* The ticks of the counter between the snapshot and the creation of log[i].
Elapsed(i) == log[i].clock - number(log[i].start_time_counter)

\* What C20 says of every stamped record but its DeltaTime.
StampedOnBase(i) ==
    /\ number(log[i].event["Time"])
          = number(log[i].start_datetime) + number(log[i].event["DeltaTime"])
    /\ log[i].event["StartTime"] = log[i].start_datetime
    /\ number(log[i].event["Time"])
          = number(log[i].event["StartTime"]) + number(log[i].event["DeltaTime"])
    /\ log[i].event[TYPE_NAME] = Str("Lever")
    /\ \A j \in Stamped :
          (i < j /\ log[i].start_datetime = log[j].start_datetime
           /\ log[i].start_time_counter = log[j].start_time_counter
           /\ log[i].start_time_offset = log[j].start_time_offset)
              => number(log[i].event["DeltaTime"]) <= number(log[j].event["DeltaTime"])

\* C20 as stated: DeltaTime is the offset plus the counter's time since the
\* snapshot (a microsecond is three ticks), Time is the anchor plus
\* DeltaTime, StartTime is the anchor, and DeltaTime does not decrease under
\* one time base.
C20_CreateEventExact ==
    \A i \in Stamped :
        /\ 3 * number(log[i].event["DeltaTime"]) = 3 * number(log[i].start_time_offset) + Elapsed(i)
        /\ StampedOnBase(i)

\* C20 with the rounding: DeltaTime is the offset plus the counter's time
\* since the snapshot rounded to the microsecond.
C20_CreateEventRounded ==
    \A i \in Stamped :
        /\ number(log[i].event["DeltaTime"]) = number(log[i].start_time_offset) + round6(Elapsed(i))
        /\ StampedOnBase(i)

\* A record stamped under a time base with an offset, a tick after the
\* snapshot.
C20_Witness ==
    /\ Len(log) = 3
    /\ log[2].op = "resume_time"
    /\ log[3].op = "append"
    /\ log[3].start_time_offset = Num(1)
    /\ Elapsed(3) = 1
    /\ log[3].event["DeltaTime"] = Num(1)
    /\ log[3].event["Time"] = Datetime(1)
    /\ \A i \in DOMAIN log : log[i].exc = ""

\* Every call that logs an event adds the parent row of the event.
LoggedRows == Len(log) = Len(ParentRows) /\ \A i \in DOMAIN log : log[i].exc = ""

\* The rows of the child array "Trigger".
TriggerRows == dataset_links["Trigger"].rows

\* The step appended one event of Type "Trigger" carrying value = 1: one
\* row to the parent array and one row with the same LinkID to the child
\* array, and no exception.
TriggerLogged ==
    /\ call'.exc = ""
    /\ Len(log') = Len(log) + 1
    /\ log'[Len(log')].event[TYPE_NAME] = Str("Trigger")
    /\ log'[Len(log')].event["value"] = Num(1)
    /\ Len(ParentRows') = Len(ParentRows) + 1
    /\ \A i \in DOMAIN ParentRows : ParentRows'[i] = ParentRows[i]
    /\ LastRow'[TYPE_NAME] = Str("Trigger")
    /\ Len(TriggerRows') = Len(TriggerRows) + 1
    /\ TriggerRows'[Len(TriggerRows')]["value"] = Num(1)
    /\ TriggerRows'[Len(TriggerRows')][LINK_NAME] = LastRow'[LINK_NAME]

\* The step appended nothing.
NothingLogged == dataset_links' = dataset_links /\ child_datasets' = child_datasets /\ log' = log

\* C30 as stated: trigger_event calls the audio trigger once; when that call
\* raises, nothing is appended; when it returns, one event of Type "Trigger"
\* with the given fields is appended.
C30_TriggerAlwaysLogs ==
    [][call'.op = "trigger_event" =>
          /\ call'.triggers = 1
          /\ call'.exc = "TriggerError" => NothingLogged
          /\ call'.exc # "TriggerError" => TriggerLogged
      ]_vars

\* C30 on a logger with a time base: trigger_event calls the audio trigger
\* once; when that call raises, nothing is appended; when it returns and
\* set_time or resume_time has set the anchor counter and the offset, one
\* event of Type "Trigger" with the given fields is appended; when it
\* returns and the time base is unset, the append raises TypeError and
\* nothing is appended.
C30_TriggerThenLog ==
    [][call'.op = "trigger_event" =>
          /\ call'.triggers = 1
          /\ call'.exc = "TriggerError" => NothingLogged
          /\ (call'.exc # "TriggerError" /\ (start_time_counter = None \/ start_time_offset = None))
                => (call'.exc = "TypeError" /\ NothingLogged)
          /\ (call'.exc # "TriggerError" /\ start_time_counter # None /\ start_time_offset # None)
                => TriggerLogged
      ]_vars

\* A second trigger event is logged after one whose trigger call failed.
C30_Witness ==
    /\ call.op = "trigger_event"
    /\ call.exc = ""
    /\ call.triggers = 1
    /\ Len(TriggerRows) = 2
    /\ Len(ParentRows) = 3
    /\ LastRow[TYPE_NAME] = Str("Trigger")
    /\ TriggerRows[2][LINK_NAME] = LastRow[LINK_NAME]

---------------------------------------------------------------------------
(* The HDF5dataset objects of the array "X": get_dataset and set_dataset   *)
(* hand them out, callers read and write element 0 through them and use    *)
(* them as contexts                                                        *)

MaxHandles == 2
MaxDepth == 2

\* The objects a caller holds.
Returned == {i \in DOMAIN handles : handles[i].returned}

\* The state after a call that ended in s; sc are the blocks still entered.
ApplyHandle(s, op, i, value, sc) ==
    /\ h5_fobj' = s.c.h5_fobj
    /\ fobj_valid' = s.c.fobj_valid
    /\ file_exists' = s.c.file_exists
    /\ attrs' = s.c.attrs
    /\ h5_items' = s.c.h5_items
    /\ _file_attrs' = s.c._file_attrs
    /\ _datasets' = s.c._datasets
    /\ cache' = s.c.cache
    /\ is_updating' = s.c.is_updating
    /\ handles' = collect(s).handles
    /\ cached' = s.cached
    /\ scopes' = sc
    /\ call' = [op |-> op, handle |-> i, value |-> value, was_open |-> IsOpen,
                was_valid |-> (i \in DOMAIN handles /\ handles[i]._dataset),
                exc |-> s.c.exc, ret |-> s.c.ret, via |-> s.via]
    /\ UNCHANGED <<hierarchyState, timeState, versionState, parentState, rejections>>

\* The objects after a call w of the container itself.
container_call(w) == invalidate(untrack([Handles EXCEPT !.c = w]))

\* The object get_dataset returns (0: not an HDF5dataset object).
get_dataset_object(w, item) ==
    IF w.exc # "" \/ w.ret.kind # "HDF5dataset" THEN 0
    ELSE IF get_dataset_constructs(w, item) THEN slot(Handles) ELSE cached

\* The objects after get_dataset ended in w.
get_dataset_objects(w, item) ==
    IF w.exc = "" /\ w.ret.kind = "HDF5dataset" /\ get_dataset_constructs(w, item)
    THEN invalidate(untrack(construct_dataset([Handles EXCEPT !.c = w], item)))
    ELSE container_call(w)

\* The caller keeps the object it was given.
keep(s, i) == IF i = 0 THEN s ELSE [s EXCEPT !.handles[i].returned = TRUE]

\* The objects after set_dataset ended in w: the "else" of its try
\* statement constructs an HDF5dataset.
set_dataset_objects(w, name) ==
    IF w.exc = "" /\ w.rejected = {}
    THEN invalidate(untrack(construct_dataset([Handles EXCEPT !.c = w], name)))
    ELSE container_call(w)

HandleConstruct ==
    /\ scopes = <<>>
    /\ \E open_ \in BOOLEAN, ord \in OrdersOf :
          ApplyHandle(container_call(construct(World, open_, ord)), "construct", 0, "", scopes)

HandleOpen ==
    /\ scopes = <<>>
    /\ \E ord \in OrdersOf :
          ApplyHandle(container_call(open(World, FALSE, ord)), "open", 0, "", scopes)

HandleClose ==
    /\ scopes = <<>>
    /\ ApplyHandle(container_call(close(World)), "close", 0, "", scopes)

\* set_dataset("X", data)
HandleSetDataset ==
    /\ slot(Handles) <= MaxHandles
    /\ \E ord \in OrdersOf :
          ApplyHandle(set_dataset_objects(set_dataset(World, "X", "d0", TRUE, ord), "X"),
                      "set_dataset", 0, "d0", scopes)

\* dataset = get_dataset("X")
HandleGetDataset ==
    /\ slot(Handles) <= MaxHandles
    /\ \E ord \in OrdersOf :
          ApplyHandle(keep(get_dataset_objects(get_dataset(World, "X", ord), "X"),
                           get_dataset_object(get_dataset(World, "X", ord), "X")),
                      "get_dataset",
                      get_dataset_object(get_dataset(World, "X", ord), "X"), "", scopes)

\* dataset[0]
GetItem0 ==
    \E i \in Returned, ord \in OrdersOf :
        ApplyHandle(dataset_getitem(Handles, i, ord), "__getitem__", i, "", scopes)

\* dataset[0] = value
SetItem0 ==
    \E i \in Returned, ord \in OrdersOf, value \in {"d0", "d1"} :
        ApplyHandle(dataset_setitem(Handles, i, value, ord), "__setitem__", i, value, scopes)

\* The blocks entered, once the object i is entered again.
reenter(sc, i) == [k \in DOMAIN sc |-> IF sc[k].handle = i THEN [sc[k] EXCEPT !.reentered = TRUE] ELSE sc[k]]

\* "with dataset:" up to the body; no block is entered when open() raises.
DatasetEnter ==
    /\ Len(scopes) < MaxDepth
    /\ \E i \in Returned, ord \in OrdersOf :
          ApplyHandle(dataset_open(Handles, i, ord), "dataset.__enter__", i, "",
                      IF dataset_open(Handles, i, ord).c.exc # "" THEN scopes
                      ELSE Append(reenter(scopes, i),
                                  [handle |-> i, was_open |-> IsOpen, reentered |-> FALSE]))

\* The end of the innermost "with dataset:" block.
DatasetExit ==
    /\ scopes # <<>>
    /\ ApplyHandle(dataset_close(Handles, scopes[Len(scopes)].handle), "dataset.__exit__",
                   scopes[Len(scopes)].handle, "", SubSeq(scopes, 1, Len(scopes) - 1))

\* HDF5container(path), its file not yet created.
container_init(u) ==
    [h5_fobj |-> 0, fobj_valid |-> FALSE, file_exists |-> FALSE,
     attrs |-> [k \in Names |-> Absent], h5_items |-> [k \in Names |-> NoArray],
     _file_attrs |-> {}, _datasets |-> {}, cache |-> [k \in Names |-> NoAttr],
     is_updating |-> u, exc |-> "", warns |-> {}, rejected |-> {}, ret |-> NoAttr]

\* The container in the state w.
ContainerIs(w) ==
    /\ h5_fobj = w.h5_fobj
    /\ fobj_valid = w.fobj_valid
    /\ file_exists = w.file_exists
    /\ attrs = w.attrs
    /\ h5_items = w.h5_items
    /\ _file_attrs = w._file_attrs
    /\ _datasets = w._datasets
    /\ cache = w.cache
    /\ is_updating = w.is_updating
    /\ rejections = {}

\* HDF5container(path, init=True): __init__ ends with construct(), which
\* creates the file and closes it.
InitHandle ==
    /\ \E u \in BOOLEAN : ContainerIs(construct(container_init(u), FALSE, CHOOSE o \in Orders : TRUE))
    /\ InitTime
    /\ InitHandles
    /\ InitVersions
    /\ InitParent
    /\ InitHierarchy
    /\ call = [op |-> "", handle |-> 0, value |-> "", was_open |-> FALSE, was_valid |-> FALSE,
               exc |-> "", ret |-> NoAttr, via |-> ""]

NextHandle ==
    \/ HandleConstruct
    \/ HandleOpen
    \/ HandleClose
    \/ HandleSetDataset
    \/ HandleGetDataset
    \/ GetItem0
    \/ SetItem0
    \/ DatasetEnter
    \/ DatasetExit

SpecHandle == InitHandle /\ [][NextHandle]_vars

\* "_X" holds one of the HDF5dataset objects exactly when cached names it,
\* and a raw handle is valid only while the file is open.
HandlesTracked ==
    /\ (cached # 0) <=> (cache["X"].kind = "HDF5dataset")
    /\ cached \in 0..Len(handles)
    /\ \A i \in DOMAIN handles : handles[i]._dataset => IsOpen

C22_ScopedHandleAccess ==
    [][/\ call'.op \in {"__getitem__", "__setitem__"} => (IsOpen' = IsOpen)
       /\ (call'.op = "dataset.__exit__" /\ Len(scopes) = 1)
            => (IsOpen' = scopes[1].was_open)]_vars

\* What holds of C22: element accesses restore the state, and so does the
\* outermost exit unless the same object was entered again inside the block.
ScopedUnlessReentered ==
    [][/\ call'.op \in {"__getitem__", "__setitem__"} => (IsOpen' = IsOpen)
       /\ (call'.op = "dataset.__exit__" /\ Len(scopes) = 1 /\ ~scopes[1].reentered)
            => (IsOpen' = scopes[1].was_open)]_vars

\* C23: two HDF5dataset objects a caller got from get_dataset compare equal
\* exactly when they wrap the same array name.
C23_HandleEqualityByName ==
    \A a, b \in Returned : dataset_eq(a, b) <=> (handles[a]._name = handles[b]._name)

---------------------------------------------------------------------------
(* The container's names: what open(validate=True) reports, what the       *)
(* writers report of a name used twice, what get_file_attribute returns,   *)
(* and what construct writes.  No write is rejected here.                  *)

\* The state after a call that ended in w; names are the names the call was
\* given, validate the argument of open.
ApplyNamed(w, op, names, validate) ==
    /\ h5_fobj' = w.h5_fobj
    /\ fobj_valid' = w.fobj_valid
    /\ file_exists' = w.file_exists
    /\ attrs' = w.attrs
    /\ h5_items' = w.h5_items
    /\ _file_attrs' = w._file_attrs
    /\ _datasets' = w._datasets
    /\ cache' = w.cache
    /\ is_updating' = w.is_updating
    /\ call' = [op |-> op, keys |-> names, validate |-> validate, was_open |-> IsOpen,
                exc |-> w.exc, warns |-> w.warns, ret |-> w.ret]
    /\ UNCHANGED <<hierarchyState, timeState, handleState, versionState, parentState, rejections>>

\* The values callers write.
StoredValues == {"v1", "v2"}

NamedNewContainer ==
    \E u \in BOOLEAN :
        ApplyNamed([World EXCEPT !.h5_fobj = 0, !.fobj_valid = FALSE, !._file_attrs = {},
                                 !._datasets = {}, !.cache = [k \in Names |-> NoAttr],
                                 !.is_updating = u],
                   "__init__", {}, FALSE)

NamedConstruct ==
    \E open_ \in BOOLEAN, ord \in OrdersOf :
        ApplyNamed(construct(World, open_, ord), "construct", {}, TRUE)

NamedOpen ==
    \E validate \in BOOLEAN, ord \in OrdersOf :
        ApplyNamed(open(World, validate, ord), "open", {}, validate)

NamedClose == ApplyNamed(close(World), "close", {}, FALSE)

\* clear_attributes()
ClearAttributes ==
    \E ord \in OrdersOf : ApplyNamed(clear_attributes(World, ord), "clear_attributes", {}, FALSE)

NamedGetFileAttribute ==
    \E k \in Names, ord \in OrdersOf :
        ApplyNamed(get_file_attribute(World, k, ord), "get_file_attribute", {k}, FALSE)

NamedSetFileAttribute ==
    \E k \in AttrKeys, v \in StoredValues, ord \in OrdersOf :
        ApplyNamed(set_file_attribute(World, k, v, ord), "set_file_attribute", {k}, FALSE)

NamedAddFileAttributes ==
    \E k \in AttrKeys, v \in StoredValues, ord \in OrdersOf :
        ApplyNamed(add_file_attributes(World, << <<k, v>> >>, ord),
                   "add_file_attributes", {k}, FALSE)

NamedSetDataset ==
    \E k \in ArrayNames, ord \in OrdersOf :
        ApplyNamed(set_dataset(World, k, "None", TRUE, ord), "set_dataset", {k}, FALSE)

NamedAddFileDatasets ==
    \E k \in ArrayNames, ord \in OrdersOf :
        ApplyNamed(add_file_datasets(World, << <<k, TRUE>> >>, ord),
                   "add_file_datasets", {k}, FALSE)

InitNamed ==
    /\ InitContainer
    /\ InitTime
    /\ InitHandles
    /\ InitVersions
    /\ InitParent
    /\ is_updating \in BOOLEAN
    /\ InitHierarchy
    /\ call = [op |-> "", keys |-> {}, validate |-> FALSE, was_open |-> FALSE,
               exc |-> "", warns |-> {}, ret |-> NoAttr]

NextNamed ==
    \/ NamedNewContainer
    \/ NamedConstruct
    \/ NamedOpen
    \/ NamedClose
    \/ ClearAttributes
    \/ NamedGetFileAttribute
    \/ NamedSetFileAttribute
    \/ NamedAddFileAttributes
    \/ NamedSetDataset
    \/ NamedAddFileDatasets

SpecNamed == InitNamed /\ [][NextNamed]_vars

\* The attribute and array names in the file.
FileAttrs == {k \in Names : attrs[k] # Absent}
FileItems == {k \in Names : h5_items[k].exists}

\* C26: open(validate=True) of an existing file by a closed container warns
\* of missing attributes exactly when a name in _file_attrs is not an
\* attribute of the file, warns of missing datasets exactly when a name in
\* _datasets is not an array of the file, and ends with the container open
\* without raising.
C26_MismatchWarned ==
    [][(call'.op = "open" /\ call'.validate /\ ~IsOpen /\ file_exists)
        => /\ ("missing attributes" \in call'.warns) <=> ~(_file_attrs \subseteq FileAttrs)
           /\ ("missing datasets" \in call'.warns) <=> ~(_datasets \subseteq FileItems)
           /\ IsOpen'
           /\ call'.exc = ""]_vars

\* What holds of C26: the two warnings are raised from comparisons for
\* equality, the first one only when the arrays differ as well.
MismatchWarnedOnDifference ==
    [][(call'.op = "open" /\ call'.validate /\ ~IsOpen /\ file_exists)
        => /\ ("missing attributes" \in call'.warns)
                <=> (_file_attrs # FileAttrs /\ _datasets # FileItems)
           /\ ("missing datasets" \in call'.warns) <=> (_datasets # FileItems)]_vars

\* C27: a writer given an attribute name that is a registered array name,
\* or an array name that is a registered attribute name, warns that the
\* name already exists, and still registers the name and raises nothing.
C27_CollisionReported ==
    [][/\ (call'.op \in {"set_file_attribute", "add_file_attributes"}
           /\ call'.keys \cap _datasets # {})
            => /\ "Attribute name already exists" \in call'.warns
               /\ call'.keys \subseteq _file_attrs'
       /\ (call'.op \in {"set_dataset", "add_file_datasets"}
           /\ call'.keys \cap _file_attrs # {})
            => /\ "Dataset name already exists" \in call'.warns
               /\ call'.keys \subseteq _datasets']_vars

\* What holds of C27: the two writers of several names report the name.
CollisionReportedByAdd ==
    [][/\ (call'.op = "add_file_attributes" /\ call'.keys \cap _datasets # {})
            => "Attribute name already exists" \in call'.warns
       /\ (call'.op = "add_file_datasets" /\ call'.keys \cap _file_attrs # {})
            => "Dataset name already exists" \in call'.warns]_vars

\* The name a call was given.
Key(c) == CHOOSE k \in c.keys : TRUE

\* C28: get_file_attribute of an attribute of the file returns the cached
\* value, which is the file's value when is_updating is set or the name had
\* no cached value, and the value cached before the call otherwise; after
\* set_file_attribute(k, v) the file and the cache hold v.
C28_CachedAttribute ==
    [][/\ (call'.op = "get_file_attribute" /\ attrs[Key(call')] # Absent
           /\ ~h5_items[Key(call')].exists)
            => /\ call'.exc = ""
               /\ call'.ret = cache'[Key(call')]
               /\ IF is_updating \/ cache[Key(call')] = NoAttr
                  THEN cache'[Key(call')] = AttrVal(attrs[Key(call')])
                  ELSE cache'[Key(call')] = cache[Key(call')]
       /\ (call'.op = "set_file_attribute" /\ call'.exc = "")
            => \E v \in StoredValues : /\ attrs'[Key(call')] = v
                                 /\ cache'[Key(call')] = AttrVal(v)]_vars

\* The defaults construct writes into a file it creates.
Defaults == [k \in Names |-> CASE k = "FileType" -> FILE_TYPE
                               [] k = "Version" -> VERSION
                               [] OTHER -> Absent]

\* C29: construct over an existing file leaves every attribute and every
\* array of the file as it was; construct without a file creates it with
\* the default attributes and no array.
C29_DefaultsOnCreation ==
    [][call'.op = "construct"
        => IF file_exists
           THEN attrs' = attrs /\ h5_items' = h5_items
           ELSE /\ file_exists'
                /\ attrs' = Defaults
                /\ h5_items' = h5_items
                /\ call'.exc = ""]_vars

\* construct over a file whose Version was rewritten and that holds an
\* attribute and an array of the callers.
C29_Witness ==
    /\ call.op = "construct"
    /\ call.exc = ""
    /\ attrs["Version"] = "v2"
    /\ attrs["X"] = "v1"
    /\ h5_items["X"].exists
    /\ cache["Version"] = AttrVal("v2")

\* ------------------------------------------------------------------------
\* src/classes/version.py: versions, the registry of versioned classes and
\* the comparisons of versioned classes.
\* ------------------------------------------------------------------------

\* The classes defined at most.
MaxItems == 3

\* The (major, moderate, minor) values classes declare as VERSION.
Versions == {<<0, 2, 0>>, <<1, 0, 1>>, <<1, 1, 0>>}

\* The values looked up and compared with.
Keys == Versions \cup {<<0, 0, 0>>, <<0, 1, 3>>, <<2, 0, 0>>}

\* TriNumberVersion.construct(obj) for a list, a tuple or the ranks of a str.
cast(obj) == [major |-> obj[1], moderate |-> obj[2], minor |-> obj[3]]

\* TriNumberVersion.tuple()
tuple(v) == <<v.major, v.moderate, v.minor>>

\* a < b of two tuples of three ints.
tuple_lt(a, b) ==
    \/ a[1] < b[1]
    \/ a[1] = b[1] /\ a[2] < b[2]
    \/ a[1] = b[1] /\ a[2] = b[2] /\ a[3] < b[3]

\* a <= b of two tuples of three ints.
tuple_le(a, b) == a = b \/ tuple_lt(a, b)

\* The comparisons of a class with another class or a version value;
\* other_version is the VERSION of the other class or the cast value.
class_eq(cls, other_version) == tuple(cls.VERSION) = tuple(other_version)

class_ne(cls, other_version) == tuple(cls.VERSION) # tuple(other_version)

class_lt(cls, other_version) == tuple_lt(tuple(cls.VERSION), tuple(other_version))

class_gt(cls, other_version) == tuple_lt(tuple(other_version), tuple(cls.VERSION))

class_le(cls, other_version) == tuple_le(tuple(cls.VERSION), tuple(other_version))

class_ge(cls, other_version) == tuple_le(tuple(cls.VERSION), tuple(other_version))

\* TriNumberVersion.__lt__(key, item) for a class item: the class is not a
\* version and cannot be cast, so its own __dict__ is searched for VERSION.
version_lt_raises(item) == ~item.declared

version_lt(key, item) == tuple_lt(tuple(key), tuple(item.VERSION))

\* (lo + hi) // 2
midpoint(lo, hi) == (lo + hi) \div 2

\* bisect.bisect(versions, key): the 0-based insertion point to the right of
\* the items not greater than key, found by halving [lo, hi).
RECURSIVE bisect(_, _, _, _)
bisect(versions, key, lo, hi) ==
    IF lo >= hi THEN [exc |-> "", index |-> lo]
    ELSE IF version_lt_raises(versions[midpoint(lo, hi) + 1])
         THEN [exc |-> "TypeError", index |-> lo]
    ELSE IF version_lt(key, versions[midpoint(lo, hi) + 1])
         THEN bisect(versions, key, lo, midpoint(lo, hi))
         ELSE bisect(versions, key, midpoint(lo, hi) + 1, hi)

\* list.index(key): the 0-based position of the first item equal to key.
RECURSIVE list_index(_, _, _)
list_index(versions, key, i) ==
    IF i >= Len(versions) THEN [exc |-> "ValueError", index |-> i]
    ELSE IF class_eq(versions[i + 1], key) THEN [exc |-> "", index |-> i]
    ELSE list_index(versions, key, i + 1)

\* list[i] of Python for i >= -len(list).
item_at(list, i) == IF i < 0 THEN list[Len(list) + 1 + i] ELSE list[i + 1]

\* The rest of get_version once the index is known.
get_version_return(versions, found) ==
    IF found.exc # "" THEN [exc |-> found.exc, ret |-> 0]
    ELSE IF found.index < 0 THEN [exc |-> "ValueError", ret |-> 0]
    ELSE [exc |-> "", ret |-> item_at(versions, found.index - 1).id]

\* VersionRegistry.get_version(type_, key, exact)
get_version(versions, key, exact) ==
    IF versions = <<>> THEN [exc |-> "KeyError", ret |-> 0]
    ELSE get_version_return(versions,
                            IF exact THEN list_index(versions, cast(key), 0)
                            ELSE bisect(versions, cast(key), 0, Len(versions)))

\* The insertion point bisect.insort uses: item < list[mid] of two classes.
RECURSIVE insort_index(_, _, _, _)
insort_index(list, item, lo, hi) ==
    IF lo >= hi THEN lo
    ELSE IF class_lt(item, list[midpoint(lo, hi) + 1].VERSION)
         THEN insort_index(list, item, lo, midpoint(lo, hi))
         ELSE insort_index(list, item, midpoint(lo, hi) + 1, hi)

\* list.insert(i, item)
insert(list, i, item) == SubSeq(list, 1, i) \o <<item>> \o SubSeq(list, i + 1, Len(list))

\* bisect.insort(list, item) with the item at the end of the list instead.
insort_appended(list, item) == Append(list, item)

\* bisect.insort(list, item)
insort(list, item) == insert(list, insort_index(list, item, 0, Len(list)), item)

\* VersionRegistry.add_item(item, type_)
add_item(versions, item) == IF versions = <<>> THEN <<item>> ELSE insort(versions, item)

\* list.sort(): stable, by the classes' __lt__.
RECURSIVE sort(_, _)
sort(list, sorted) ==
    IF list = <<>> THEN sorted ELSE sort(Tail(list), insort(sorted, Head(list)))

\* VersionRegistry.sort(type_)
registry_sort(versions) == sort(versions, <<>>)

\* VersionedClass.get_version_class(version, exact=exact, sort=sort) on the
\* list the registry holds after the optional sort.
get_version_class(versions, version, exact) == get_version(versions, version, exact)

\* The class __init_subclass__ registers: VERSION is the declared value cast
\* to a version, the version of VersionedClass's None for a class that has
\* no versioned parent, and else the parent's VERSION object, which is then
\* not in the class's own __dict__.
init_subclass(id, parent, declared) ==
    IF declared # <<>> THEN [id |-> id, VERSION |-> cast(declared), declared |-> TRUE]
    ELSE IF parent = 0 THEN [id |-> id, VERSION |-> cast(<<0, 0, 0>>), declared |-> TRUE]
    ELSE [id |-> id, VERSION |-> registry[parent].VERSION, declared |-> FALSE]

ApplyVersion(versions, c) ==
    /\ registry' = versions
    /\ call' = c
    /\ UNCHANGED <<containerState, hierarchyState, timeState, handleState, parentState, rejections>>

\* class C(parent): VERSION = declared   (or no VERSION line)
InitSubclass ==
    /\ Len(registry) < MaxItems
    /\ \E parent \in 0..Len(registry), declared \in Versions \cup {<<>>} :
        ApplyVersion(add_item(registry, init_subclass(Len(registry) + 1, parent, declared)),
                     [op |-> "__init_subclass__", id |-> Len(registry) + 1])

\* get_version_class(version, exact=exact, sort=sort_)
GetVersionClass ==
    \E version \in Keys, exact \in BOOLEAN, sort_ \in BOOLEAN :
        ApplyVersion(IF sort_ /\ registry # <<>> THEN registry_sort(registry) ELSE registry,
                     [op |-> "get_version", key |-> version, exact |-> exact,
                      result |-> get_version_class(IF sort_ THEN registry_sort(registry) ELSE registry,
                                                   version, exact)])

\* The six comparisons of the class at position a with the version b.
compare(cls, other_version) ==
    [eq |-> class_eq(cls, other_version), ne |-> class_ne(cls, other_version),
     lt |-> class_lt(cls, other_version), gt |-> class_gt(cls, other_version),
     le |-> class_le(cls, other_version), ge |-> class_ge(cls, other_version)]

\* A == B, ..., A >= B of two registered classes.
CompareClasses ==
    \E a \in 1..Len(registry), b \in 1..Len(registry) :
        ApplyVersion(registry,
                     [op |-> "compare", a |-> tuple(registry[a].VERSION),
                      b |-> tuple(registry[b].VERSION),
                      result |-> compare(registry[a], registry[b].VERSION)])

\* A == value, ..., A >= value of a registered class and a str, list or tuple.
CompareValue ==
    \E a \in 1..Len(registry), value \in Keys :
        ApplyVersion(registry,
                     [op |-> "compare", a |-> tuple(registry[a].VERSION), b |-> value,
                      result |-> compare(registry[a], cast(value))])

InitVersion ==
    /\ InitContainer
    /\ InitTime
    /\ InitHandles
    /\ InitVersions
    /\ InitParent
    /\ is_updating = TRUE
    /\ InitHierarchy
    /\ call = [op |-> ""]

NextVersion ==
    \/ InitSubclass
    \/ GetVersionClass
    \/ CompareClasses
    \/ CompareValue

SpecVersion == InitVersion /\ [][NextVersion]_vars

\* The ids of the classes in the list.
registered(versions) == {versions[i].id : i \in 1..Len(versions)}

\* The list is in ascending order of version.
ascending(versions) ==
    \A i \in 1..(Len(versions) - 1) :
        tuple_le(tuple(versions[i].VERSION), tuple(versions[i + 1].VERSION))

\* C35: after any sequence of class definitions the registry's list holds
\* every defined class exactly once and is in ascending order of version.
C35_RegistrySorted ==
    /\ ascending(registry)
    /\ registered(registry) = 1..Len(registry)

\* Three classes defined in descending order of version, with one that
\* inherits its parent's VERSION.
C35_Witness ==
    /\ Len(registry) = 3
    /\ registry[1].id = 3
    /\ \E i \in 1..3 : ~registry[i].declared
    /\ tuple(registry[1].VERSION) # tuple(registry[3].VERSION)

\* The VERSION tuple of the registered class with the given id.
version_of(id) == tuple((CHOOSE c \in {registry[i] : i \in 1..Len(registry)} : c.id = id).VERSION)

\* The VERSION tuples of the registered classes.
registered_versions == {tuple(registry[i].VERSION) : i \in 1..Len(registry)}

\* A closest lookup of a key not lower than the lowest registered version.
ClosestLookup ==
    /\ call.op = "get_version"
    /\ ~call.exact
    /\ registry # <<>>
    /\ tuple_le(tuple(registry[1].VERSION), call.key)

\* The lookup returned a class of the greatest version not above the key.
ClosestReturned ==
    /\ call.result.exc = ""
    /\ tuple_le(version_of(call.result.ret), call.key)
    /\ \A v \in registered_versions :
        tuple_le(v, call.key) => tuple_le(v, version_of(call.result.ret))

\* C31: get_version(type, key, exact=False) with a key not lower than the
\* lowest registered version returns the registered class with the greatest
\* version that is less than or equal to the key.
C31_ClosestVersion == ClosestLookup => ClosestReturned

\* What holds of C31: the closest class is returned when every registered
\* class declares its own VERSION.
ClosestAmongDeclared ==
    (ClosestLookup /\ \A i \in 1..Len(registry) : registry[i].declared) => ClosestReturned

\* C32: get_version(type, key, exact=True) with a registered key returns the
\* registered class whose version equals the key.
C32_ExactVersion ==
    (call.op = "get_version" /\ call.exact /\ call.key \in registered_versions)
        => /\ call.result.exc = ""
           /\ version_of(call.result.ret) = call.key

\* What holds of C32: an exact lookup of a key that is not registered raises
\* ValueError, and a registered key raises nothing.
ExactRaisesUnlessRegistered ==
    (call.op = "get_version" /\ call.exact /\ registry # <<>>)
        => (call.result.exc = "ValueError") = (call.key \notin registered_versions)

\* C33: get_version raises ValueError when the key is lower than every
\* registered version, and never returns a class whose version is greater
\* than the key.
C33_NoClosestRaises ==
    (call.op = "get_version" /\ registry # <<>>)
        => /\ (\A v \in registered_versions : tuple_lt(call.key, v))
                => call.result.exc = "ValueError"
           /\ call.result.exc = "" => tuple_le(version_of(call.result.ret), call.key)

\* C34: each of the six comparisons of a class with a class or a version
\* value returns the comparison of the two VERSION tuples.
C34_ComparisonsFollowTuples ==
    call.op = "compare"
        => /\ call.result.eq = (call.a = call.b)
           /\ call.result.ne = (call.a # call.b)
           /\ call.result.lt = tuple_lt(call.a, call.b)
           /\ call.result.gt = tuple_lt(call.b, call.a)
           /\ call.result.le = tuple_le(call.a, call.b)
           /\ call.result.ge = tuple_le(call.b, call.a)

\* What holds of C34: the five comparisons other than >= follow the tuples.
ComparisonsButGe ==
    call.op = "compare"
        => /\ call.result.eq = (call.a = call.b)
           /\ call.result.ne = (call.a # call.b)
           /\ call.result.lt = tuple_lt(call.a, call.b)
           /\ call.result.gt = tuple_lt(call.b, call.a)
           /\ call.result.le = tuple_le(call.a, call.b)

---------------------------------------------------------------------------
(* The reference index as a cache over the persisted column: item writes   *)
(* and rows added at an explicit index beside the calls of SpecRef          *)

\* The item callers write into a row.
WrittenItem == [f \in EVENT_FIELDS |-> IF f = TYPE_NAME THEN Str("Lever") ELSE Num(1)]

\* set_item(item, index): the row takes the item's fields and keeps its id,
\* a new one when it held none.
SetItem ==
    \E index \in DOMAIN dataset_links["Events"].rows :
        ApplyReference(set_item([Links EXCEPT !.item = WrittenItem], "Events", index),
                       "set_item", None, index)

\* max((s, i))
max(s, i) == IF i > s THEN i ELSE s

\* self.dataset.shape of an array create_event_dataset made: (m, 1).
shape(w, name) == <<Len(Self(w, name).rows), 1>>

\* "for s, i in zip(shape, index): new_shape.append(max((s, i)))"
new_shape(w, name, index) == [a \in 1..2 |-> max(shape(w, name)[a], index[a])]

\* self.dataset.resize(new_shape, None): zero-filled rows up to new_shape[0].
RECURSIVE resize_to(_, _, _)
resize_to(w, name, size) ==
    IF Len(Self(w, name).rows) >= size[1] THEN w ELSE resize_to(resize(w, name), name, size)

\* set_reference(index, id_) for a 0-based index of two axes: h5py raises
\* for an index outside the array's extent.
set_reference_at(w, name, index, id_) ==
    IF index[1] >= shape(w, name)[1] \/ index[2] >= shape(w, name)[2]
    THEN Raise(w, "IndexError")
    ELSE [set_reference(w, name, index[1] + 1, id_) EXCEPT !.id = id_]

\* new_reference(index=index, id_=id_) with an explicit index.
new_reference_at(w, name, index, id_) ==
    IF Len(index) # Len(shape(w, name)) THEN Raise(w, "IndexError")
    ELSE set_reference_at(resize_to(w, name, new_shape(w, name, index)), name, index, id_)

\* The explicit indices callers pass: of the array's rank and of another.
Indices == {<<i, 0>> : i \in 0..MaxRows} \cup {<<0, 1>>, <<0>>, <<0, 0, 0>>}

\* The state after new_reference with an explicit index.
ApplyReferenceAt(w, id_, index) ==
    /\ dataset_links' = w.dataset_links
    /\ uuids' = w.uuids
    /\ written' = written \cup Stored(w.dataset_links["Events"])
    /\ call' = [op |-> "new_reference_at", id |-> id_, index |-> 0, at |-> index, exc |-> w.exc,
                warns |-> w.warns, ret_index |-> w.index, ret_id |-> w.id]
    /\ UNCHANGED <<containerState, timeState, handleState, versionState, parentState, rejections, child_datasets, log>>

NewReferenceAt ==
    \E index \in Indices, id_ \in CallerIds :
        /\ index[1] <= MaxRows
        /\ ApplyReferenceAt(new_reference_at(Links, "Events", index, id_), id_, index)

NextIndex ==
    \/ NewReference
    \/ SetReference
    \/ SetItem
    \/ GetIndex
    \/ GetId
    \/ NewReferenceDataset

SpecIndex == InitRef /\ [][NextIndex]_vars

NextGrow ==
    \/ NewReference
    \/ NewReferenceAt
    \/ GetId

SpecGrow == InitRef /\ [][NextGrow]_vars

\* The id -> location map and the location -> id map are inverses: no id
\* has two locations and no location two ids.
OneToOne(b) == \A p, q \in b : (p[1] = q[1]) = (p[2] = q[2])

\* C36: after every call on the reference index, failed ones included, the
\* two maps are inverses of each other and the row at the location of
\* every cached pair holds the pair's id in its reference field.
C36_IndexCoherent ==
    /\ OneToOne(dataset_links["Events"].references)
    /\ \A p \in dataset_links["Events"].references :
        /\ p[2] \in DOMAIN RefRows
        /\ RefRows[p[2]][RefField] = str(p[1])

\* What holds of C36: the two maps stay inverses of each other.
IndexOneToOne == OneToOne(dataset_links["Events"].references)

\* C37: new_reference with an index of the array's rank grows the array,
\* never shrinks it, so that the index is a position of the array, and
\* writes the id at that index; an index of another length raises
\* IndexError and leaves the array as it was.
C37_ExplicitIndexGrows ==
    [][call'.op = "new_reference_at"
        => IF Len(call'.at) = 2
           THEN /\ call'.exc = ""
                /\ Len(RefRows') >= Len(RefRows)
                /\ call'.at[1] + 1 \in DOMAIN RefRows'
                /\ call'.at[2] = 0
                /\ RefRows'[call'.at[1] + 1][RefField] = str(call'.id)
           ELSE call'.exc = "IndexError" /\ RefRows' = RefRows]_vars

\* What holds of C37: an index inside the array's extent gets the id and the
\* array keeps its extent, an index of another length raises IndexError and
\* changes nothing, and the array never shrinks.
ExplicitIndexInsideExtent ==
    [][call'.op = "new_reference_at"
        => /\ Len(RefRows') >= Len(RefRows)
           /\ (Len(call'.at) = 2 /\ call'.at[1] < Len(RefRows) /\ call'.at[2] = 0)
                => /\ Len(RefRows') = Len(RefRows)
                   /\ RefRows'[call'.at[1] + 1][RefField] = str(call'.id)
           /\ Len(call'.at) # 2 => (call'.exc = "IndexError" /\ RefRows' = RefRows)]_vars

---------------------------------------------------------------------------
(* The event logger over a file written before: a new hierarchy over the    *)
(* parent array, then appends and reads.  An array of the file keeps its    *)
(* descr and rows in dataset_links while it is not registered.              *)

\* The events appended before and after the file is reopened.
MaxStored == 2

\* "name in self._datasets" of the container: the file holds the array.
in_file(w, name) == name \in DatasetNames /\ Self(w, name).descr # <<>>

\* HDF5linkedDatasets.pop_dataset(name)
pop_dataset(w, name) ==
    IF name \notin DatasetNames THEN Raise(w, "KeyError")
    ELSE IF ~Self(w, name).exists THEN Raise(w, "KeyError")
    ELSE [w EXCEPT !.dataset_links[name].exists = FALSE,
                   !.dataset_links[name].references = {}]

\* HDF5linkedDatasets.add_datset(name, dataset, link_name): a new
\* HDF5referenceDataset over the array, NameError when the array has no
\* field link_name.
add_datset(w, name, link_name) ==
    IF link_name \notin FieldsOf(Self(w, name).descr) THEN Raise(w, "NameError")
    ELSE [w EXCEPT !.dataset_links[name].exists = TRUE,
                   !.dataset_links[name].reference_field = link_name,
                   !.dataset_links[name].references = {}]

\* HDF5hierarchicalDatasets.add_child_dataset(name, dataset)
hierarchy_add_child_dataset_set(w, name) ==
    IF w.exc # "" THEN w ELSE [w EXCEPT !.child_datasets = @ \cup {name}]

hierarchy_add_child_dataset(w, name) ==
    hierarchy_add_child_dataset_set(add_datset(w, name, LINK_NAME), name)

\* The loop of clear_child_datasets over the names it reads from
\* child_datasets.
RECURSIVE clear_child_datasets_loop(_, _)
clear_child_datasets_loop(w, children) ==
    IF children = <<>> \/ w.exc # "" THEN w
    ELSE clear_child_datasets_loop(pop_dataset(w, Head(children)), Tail(children))

\* clear_child_datasets(): children is child_datasets in the order of the dict.
clear_child_datasets(w, children) ==
    IF clear_child_datasets_loop(w, children).exc # "" THEN clear_child_datasets_loop(w, children)
    ELSE [clear_child_datasets_loop(w, children) EXCEPT !.child_datasets = {}]

\* "if child not in self.child_datasets:
\*      self.add_child_dataset(child, self.h5_container[child])"
load_parent_dataset_child(w, child) ==
    IF child \in w.child_datasets THEN w
    ELSE IF ~in_file(w, child) THEN Raise(w, "KeyError")
    ELSE hierarchy_add_child_dataset(w, child)

\* The loop of load_parent_dataset over array.flatten().tolist().
RECURSIVE load_parent_dataset_loop(_, _)
load_parent_dataset_loop(w, array) ==
    IF array = <<>> \/ w.exc # "" THEN w
    ELSE load_parent_dataset_loop(load_parent_dataset_child(w, Head(array)), Tail(array))

\* self.parent_dataset[self.child_name_field]
child_names(w, parent) ==
    [i \in DOMAIN Self(w, parent).rows |-> Self(w, parent).rows[i][TYPE_NAME].v]

\* A variant of load_parent_dataset that passes over the last row.
load_parent_dataset_but_last(w, parent, children) ==
    load_parent_dataset_loop(clear_child_datasets(w, children),
                             SubSeq(child_names(w, parent), 1, Len(child_names(w, parent)) - 1))

\* load_parent_dataset()
load_parent_dataset(w, parent, children) ==
    load_parent_dataset_loop(clear_child_datasets(w, children), child_names(w, parent))

\* HDF5hierarchicalDatasets(): child_datasets and dataset_links are empty.
hierarchy_init(w) ==
    [w EXCEPT !.child_datasets = {},
              !.dataset_links = [n \in DatasetNames |->
                                    [w.dataset_links[n] EXCEPT !.exists = FALSE, !.references = {}]]]

\* HDF5eventLogger.construct over the file: a new hierarchy whose
\* set_parent_dataset registers the array "Events" and loads its children.
hierarchy_construct(w) ==
    load_parent_dataset(add_datset(hierarchy_init(w), "Events", LINK_NAME), "Events", <<>>)

\* A new logger is constructed on the file.
Reload == ApplyLogger(hierarchy_construct(Links), "construct", "", 0, <<>>)

AppendStored ==
    /\ Len(log) < MaxStored
    /\ \E type \in Types, sh \in Shapes :
         \E datasets \in Orderings({"Events", type}) :
            ApplyLogger(append_event(Links, EventRecord(type, Len(log) + 1, sh[2], sh[1]),
                                     datasets),
                        "append", type, 0,
                        <<EventRecord(type, Len(log) + 1, sh[2], sh[1])>>)

NextReload ==
    \/ AppendStored
    \/ Reload
    \/ GetItem
    \/ GetEventType

SpecReload == InitEvents /\ [][NextReload]_vars

\* The arrays as the file holds them: schema and rows.
Arrays == [n \in DatasetNames |-> [descr |-> dataset_links[n].descr, rows |-> dataset_links[n].rows]]

\* C38: an append leaves the schema and every row of every array that
\* existed as they were, adds one row to the parent array and one row to the
\* child array of the event's Type, and leaves every other array as it was.
C38_AppendOnlyGrowth ==
    [][call'.op = "append"
        => /\ \A n \in DatasetNames :
                dataset_links[n].descr # <<>>
                    => /\ dataset_links'[n].descr = dataset_links[n].descr
                       /\ \A i \in DOMAIN dataset_links[n].rows :
                            dataset_links'[n].rows[i] = dataset_links[n].rows[i]
           /\ Len(dataset_links'["Events"].rows) = Len(dataset_links["Events"].rows) + 1
           /\ Len(dataset_links'[call'.name].rows) = Len(dataset_links[call'.name].rows) + 1
           /\ \A n \in DatasetNames \ {"Events", call'.name} : Arrays'[n] = Arrays[n]]_vars

\* An event is appended, after the file was reopened, to arrays that hold a
\* row each.
C38_Witness ==
    /\ call.op = "append"
    /\ call.exc = ""
    /\ call.name = "Lever"
    /\ Len(dataset_links["Lever"].rows) = 2
    /\ Cardinality(dataset_links["Events"].references) = 1

\* C39: a new hierarchy over the parent array registers the parent and one
\* child array for each Type a parent row holds and no other, and changes
\* no array; get_item and get_dataset then return, for the events appended
\* before, the merged records of the rows as appended.
C39_ReloadRestores ==
    [][/\ call'.op = "construct"
            => /\ call'.exc = ""
               /\ child_datasets' = {TypeOf(i) : i \in DOMAIN ParentRows}
               /\ RegisteredNames' = {"Events"} \cup child_datasets'
               /\ Arrays' = Arrays
       /\ (call'.op = "get_item" /\ log[call'.index].exc = "")
            => /\ call'.exc = ""
               /\ call'.item = Merged(call'.index)
               /\ \A f \in DOMAIN call'.item : call'.item[f] = AsStored(log[call'.index].event)[f]
       /\ (call'.op = "get_event_type" /\ call'.name \in child_datasets)
            => /\ call'.exc = ""
               /\ call'.items = [k \in DOMAIN RowsOf(call'.name) |-> Merged(RowsOf(call'.name)[k])]]_vars

\* The second event is read after the file was reopened: the index of the
\* parent array holds the one id the read looked up.
C39_Witness ==
    /\ call.op = "get_item"
    /\ call.index = 2
    /\ call.exc = ""
    /\ child_datasets = {"Lever", "Tone"}
    /\ Len(ParentRows) = 2
    /\ dataset_links["Events"].references = {<<UUID(ParentRows[2][LINK_NAME].v), 2>>}

---------------------------------------------------------------------------
(* The registry of the hierarchy: the parent's and the children's names in  *)
(* the linked datasets                                                      *)

\* The names callers pass: the parent's and the Types'.
HierarchyNames == {"Events"} \cup Types

\* The events appended between the calls on the hierarchy.
MaxTyped == 1

\* self.parent_dataset[self.child_name_field]: h5py raises ValueError for a
\* field the array's dtype does not have.
load_parent_dataset_array(w, children) ==
    IF TYPE_NAME \notin FieldsOf(Self(w, w.parent_name).descr)
    THEN Raise(clear_child_datasets(w, children), "ValueError")
    ELSE load_parent_dataset(w, w.parent_name, children)

\* set_parent_dataset after the old parent was popped.
set_parent_dataset_add(w, name, children) ==
    IF w.exc # "" THEN w
    ELSE IF add_datset([w EXCEPT !.parent_name = name], name, LINK_NAME).exc # ""
         THEN add_datset([w EXCEPT !.parent_name = name], name, LINK_NAME)
    ELSE load_parent_dataset_array(add_datset([w EXCEPT !.parent_name = name], name, LINK_NAME),
                                   children)

\* set_parent_dataset(name, dataset, link_name) for the array of that name;
\* children is child_datasets in the order of the dict.
set_parent_dataset(w, name, children) ==
    set_parent_dataset_add(pop_dataset(w, w.parent_name), name, children)

\* create_child_dataset(name, **kwargs): set_dataset creates the array in
\* the file and returns None, and HDF5referenceDataset(None, link_name)
\* raises AttributeError.
create_child_dataset(w, name) ==
    Raise(IF in_file(w, name) THEN w
          ELSE [w EXCEPT !.dataset_links[name].descr = TONE_DTYPE],
          "AttributeError")

\* "self.child_datasets.pop(name)"
child_datasets_pop(w, name) ==
    IF w.exc # "" THEN w
    ELSE IF name \notin w.child_datasets THEN Raise(w, "KeyError")
    ELSE [w EXCEPT !.child_datasets = @ \ {name}]

\* remove_child_dataset(name)
remove_child_dataset(w, name) == child_datasets_pop(pop_dataset(w, name), name)

\* The state after a call on the hierarchy that ended in w.
ApplyHierarchy(w, op, name, events) ==
    /\ parent_name' = w.parent_name
    /\ dataset_links' = w.dataset_links
    /\ child_datasets' = w.child_datasets
    /\ uuids' = w.uuids
    /\ log' = log \o [i \in DOMAIN events |->
                        [event |-> events[i], exc |-> w.exc,
                         row |-> Len(w.dataset_links["Events"].rows)]]
    /\ call' = [op |-> op, name |-> name, exc |-> w.exc]
    /\ UNCHANGED <<containerState, timeState, handleState, versionState, rejections, written>>

\* set_parent_dataset(name, container[name], "LinkID")
SetParentDataset ==
    \E name \in HierarchyNames, children \in Orderings(child_datasets) :
        /\ in_file(Links, name)
        /\ ApplyHierarchy(set_parent_dataset(Links, name, children), "set_parent_dataset", name, <<>>)

\* add_child_dataset(name, container[name])
AddChildDataset ==
    \E name \in HierarchyNames :
        /\ in_file(Links, name)
        /\ ApplyHierarchy(hierarchy_add_child_dataset(Links, name), "add_child_dataset", name, <<>>)

CreateChildDataset ==
    \E name \in HierarchyNames :
        ApplyHierarchy(create_child_dataset(Links, name), "create_child_dataset", name, <<>>)

RemoveChildDataset ==
    \E name \in HierarchyNames :
        ApplyHierarchy(remove_child_dataset(Links, name), "remove_child_dataset", name, <<>>)

ClearChildDatasets ==
    \E children \in Orderings(child_datasets) :
        ApplyHierarchy(clear_child_datasets(Links, children), "clear_child_datasets", "", <<>>)

\* append of an event of a Type, while the parent is the logger's "Events".
AppendTyped ==
    /\ Len(log) < MaxTyped
    /\ parent_name = "Events"
    /\ \E type \in Types :
         \E datasets \in Orderings({"Events", type}) :
            ApplyHierarchy(append_event(Links, EventRecord(type, Len(log) + 1, "num", {}), datasets),
                           "append", type, <<EventRecord(type, Len(log) + 1, "num", {})>>)

InitHierarchyCalls ==
    /\ InitContainer
    /\ InitTime
    /\ InitHandles
    /\ InitVersions
    /\ InitParent
    /\ is_updating = TRUE
    /\ InitHierarchy
    /\ call = [op |-> "", name |-> "", exc |-> ""]

NextHierarchy ==
    \/ SetParentDataset
    \/ AddChildDataset
    \/ CreateChildDataset
    \/ RemoveChildDataset
    \/ ClearChildDatasets
    \/ AppendTyped

SpecHierarchy == InitHierarchyCalls /\ [][NextHierarchy]_vars

\* C40: after every call on the hierarchy the names registered in the
\* linked datasets are the parent's name and the names of the registered
\* child arrays, and the parent array is registered.
C40_RegistryConsistent ==
    /\ RegisteredNames = {parent_name} \cup child_datasets
    /\ dataset_links[parent_name].exists

\* What holds of C40: the registry is consistent while no child array has
\* the parent's name and no call was given the parent's name or raised.
RegistryConsistentWithoutCollision ==
    [][(/\ RegisteredNames = {parent_name} \cup child_datasets
        /\ parent_name \notin child_datasets
        /\ call'.name # parent_name
        /\ call'.op # "set_parent_dataset"
        /\ call'.exc = "")
        => RegisteredNames' = {parent_name'} \cup child_datasets']_vars

====
